---- MODULE Spec2Model ----
(***************************************************************************)
(* Bedrock-IPC: the text-safe packetizer (net/encoding/PacketEncoder.ts),  *)
(* the endpoint registry (net/EndpointManager.ts) and the fragment         *)
(* emitter / reassembler (net/messages/MessageEmitter.ts,                  *)
(* net/messages/MessageListener.ts) as a state machine.                    *)
(*                                                                         *)
(* Strings are sequences of UTF-16 code units (naturals), byte buffers are *)
(* sequences of naturals in 0..255.  A generator is a job whose position   *)
(* is kept between two suspension points (yield); one action runs a job    *)
(* from one suspension point to the next; consecutive slices in which a   *)
(* job reads and writes nothing but its own locals are one action.         *)
(*                                                                         *)
(* SpecPE applies the packetizer to every small buffer and budget, Spec    *)
(* runs the registry, the emitter and the receive jobs with MaxSubs        *)
(* subscribers, SpecOne runs them with one subscriber and longer messages, *)
(* SpecEmit runs the emitter alone.  SpecSer applies the schema            *)
(* serializers (proto/serializers) to small values and readers, SpecBB     *)
(* runs the operations of proto/ByteBuffer.ts.  SpecSend runs IPCClient    *)
(* with send, on and once, SpecInvoke runs it with invoke and handle,      *)
(* SpecInvokeTwo with two invokes of one handler.  SpecVoid emits messages *)
(* with PROTO.Void.  SpecLegacy runs the listener of the legacy            *)
(* net/MessageListener.js on the fragments of one message.  SpecFair runs  *)
(* one subscriber and the messages for it under the fairness of            *)
(* system.runJob and of the host's event delivery.  SpecMalformed raises   *)
(* script events whose id no emitter of this protocol wrote.  SpecRoute,   *)
(* SpecHex, SpecVarint and SpecOptional apply the routing of an event id,  *)
(* the hex text codec (net/encoding/HeaderCodec.ts), the variable-length   *)
(* integers on 32-bit words and OptionalSerializer to bounded inputs.      *)
(***************************************************************************)
EXTENDS Integers, Sequences, FiniteSets, TLC

(***************************************************************************)
(* Bounds of the model.                                                    *)
(***************************************************************************)
\* longest byte buffer handed to PacketEncoder.encode in SpecPE
MaxBufLen == 5
\* largest size budget handed to PacketEncoder.encode in SpecPE
MaxBudget == 6

\* listen() calls (subscribers), emitted messages, and fragment deliveries
\* the transport repeats
MaxSubs == 2
MaxMsgs == 1
MaxDup == 1

\* SpecSer: longest string, most entries of a collection, largest number
\* given to VarUInt32, largest magnitude given to VarInt32, most bytes the
\* reader's buffer lacks
MaxStringLen == 2
MaxItems == 2
MaxVarUInt == 16500
MaxVarInt == 70
MaxCut == 2

\* SpecBB: largest initialSize, largest size or length of one call, and the
\* write position at which the model stops writing
MaxInitialSize == 2
MaxSize == 3
MaxWritePos == 4

\* SpecVoid: messages emitted
MaxVoidMsgs == 2

\* SpecSend: listeners of on and once, and messages sent
MaxSendListeners == 2
MaxSends == 2
\* SpecInvoke: handle calls and invoke calls; listeners and emitted messages
\* (requests and responses) of any specification
MaxHandlers == 2
MaxInvokes == 1
\* SpecInvokeTwo: invokes, each one making a request and a response
MaxPairInvokes == 2
MaxLegacySize == 3       \* SpecLegacy: fragments of the message
MaxLegacyArrivals == 5   \* SpecLegacy: fragments delivered, repetitions included
MaxFairMsgs == 2         \* SpecFair: messages emitted
MaxRouteIndex == 300     \* SpecRoute: largest fragment index of a header
MaxHexLen == 3           \* SpecHex: longest byte buffer
MaxTokenLen == 5         \* SpecHex: longest token
MaxWordGap == 1          \* SpecVarint: distance of a sampled half below 0xFFFF
MaxOptionalRest == 1     \* SpecOptional: bytes that follow the optional
MaxListeners == 3
MaxEmits == 3

\* the byte values buffers are drawn from in SpecPE: with these a pair of
\* bytes gives a code unit <= 0xFF (high byte 0), one in 0x100..0x7FF (high
\* byte 1 or 7) and one above 0x7FF (high byte 8 or 255)
ByteVals == {0, 1, 7, 8, 255}

(***************************************************************************)
(* Text helpers: Number.prototype.toString(16), padStart, toUpperCase,     *)
(* parseInt(_, 16).                                                        *)
(***************************************************************************)
NaN == -1

\* the code unit of the lower-case hexadecimal digit of d in 0..15
HexDigitLower(d) == IF d < 10 THEN 48 + d ELSE 87 + d

\* the code unit of the upper-case hexadecimal digit of d in 0..15
HexDigit(d) == IF d < 10 THEN 48 + d ELSE 55 + d

\* v.toString(16).toUpperCase() without the padding
HexNoPad(v) ==
  IF v < 16 THEN <<HexDigit(v)>> ELSE <<HexDigit(v \div 16), HexDigit(v % 16)>>

\* v.toString(16).padStart(2, '0').toUpperCase() for v in 0..255
Hex2(v) == <<HexDigit(v \div 16), HexDigit(v % 16)>>

\* the value of a hexadecimal digit character (either case), NaN if none
HexValue(c) ==
  IF c >= 48 /\ c <= 57 THEN c - 48
  ELSE IF c >= 65 /\ c <= 70 THEN c - 55
  ELSE IF c >= 97 /\ c <= 102 THEN c - 87
  ELSE NaN

\* parseInt(s, 16) of a string of at most two characters: the longest
\* prefix of hexadecimal digits, NaN when the first character is none
ParseInt16(s) ==
  IF Len(s) = 0 \/ HexValue(s[1]) = NaN THEN NaN
  ELSE IF Len(s) = 1 \/ HexValue(s[2]) = NaN THEN HexValue(s[1])
  ELSE 16 * HexValue(s[1]) + HexValue(s[2])

\* value & 0xFF as ByteBuffer.writeByte stores it (NaN & 0xFF is 0)
ToByte(v) == IF v = NaN THEN 0 ELSE v % 256

\* value >> 8 for a code unit (NaN >> 8 is 0)
Shr8(v) == IF v = NaN THEN 0 ELSE v \div 256

(***************************************************************************)
(* PacketEncoder                                                           *)
(***************************************************************************)
\* the size budget emit uses.  The source sets 2048; the model scales it
\* down so that messages of a few bytes split into several fragments.
MAX_FRAGMENT_SIZE == 4

\* PacketEncoder.encode: the cost of one code unit
CharSizeAllTwo(charCode) == 2

CharSize(charCode) ==
  IF charCode > 255
    THEN (IF charCode <= 127 THEN 1 ELSE IF charCode <= 2047 THEN 2 ELSE 3)
    ELSE 2

\* the text one code unit is written as
UnitText(charCode) ==
  IF charCode > 255 THEN <<charCode>> ELSE Hex2(charCode)

\* the final push of encode: the last fragment is kept when it is non-empty
\* or when nothing was pushed before
EncodeFinishDropEmpty(fragments, currentFragment) ==
  IF currentFragment # <<>> THEN Append(fragments, currentFragment)
  ELSE fragments

EncodeFinish(fragments, currentFragment) ==
  IF currentFragment # <<>> \/ Len(fragments) = 0
    THEN Append(fragments, currentFragment)
    ELSE fragments

\* the loop of encode from byte offset i (0-based, as in the source) with
\* the fragments closed so far, the open fragment and its accumulated size
RECURSIVE EncodeLoop(_, _, _, _, _, _)
EncodeLoop(bytes, maxSize, i, fragments, currentFragment, currentSize) ==
  IF i >= Len(bytes) THEN EncodeFinish(fragments, currentFragment)
  ELSE
    LET low == bytes[i + 1]
        high == IF i + 1 < Len(bytes) THEN bytes[i + 2] ELSE 0
        charCode == low + 256 * high
        charSize == CharSize(charCode)
        flush == currentSize + charSize > maxSize
        frs == IF flush THEN Append(fragments, currentFragment) ELSE fragments
        cur == IF flush THEN <<>> ELSE currentFragment
        size == IF flush THEN 0 ELSE currentSize
    IN  IF charCode > 255
          THEN EncodeLoop(bytes, maxSize, i + 2, frs,
                          cur \o UnitText(charCode), size + charSize)
          ELSE EncodeLoop(bytes, maxSize, i + 2, frs,
                          cur \o UnitText(charCode), size + 2)

Encode(bytes, maxSize) == EncodeLoop(bytes, maxSize, 0, <<>>, <<>>, 0)

\* the two bytes decode writes for the character at offset j (1-based) of
\* one fragment, and the offset of the next character
DecodeUnit(fragment, j) ==
  LET charCode == fragment[j]
  IN  IF charCode <= 255
        THEN LET hexCode == ParseInt16(SubSeq(fragment, j, j + 1))
             IN  [bytes |-> <<ToByte(hexCode), Shr8(hexCode)>>, next |-> j + 2]
        ELSE [bytes |-> <<ToByte(charCode), Shr8(charCode)>>, next |-> j + 1]

\* the inner loop of decode over one fragment
RECURSIVE DecodeFragment(_, _)
DecodeFragment(fragment, j) ==
  IF j > Len(fragment) THEN <<>>
  ELSE LET u == DecodeUnit(fragment, j)
       IN  u.bytes \o DecodeFragment(fragment, u.next)

\* PacketEncoder.decode: the bytes written to the returned buffer (its read
\* cursor is reset to 0); an empty fragment is skipped
RECURSIVE Decode(_)
Decode(fragments) ==
  IF Len(fragments) = 0 THEN <<>>
  ELSE (IF Head(fragments) = <<>> THEN <<>>
        ELSE DecodeFragment(Head(fragments), 1))
       \o Decode(Tail(fragments))

\* the number of code units (suspension points of decode) in a fragment
RECURSIVE UnitCount(_, _)
UnitCount(fragment, j) ==
  IF j > Len(fragment) THEN 0
  ELSE 1 + UnitCount(fragment, IF fragment[j] <= 255 THEN j + 2 ELSE j + 1)

(***************************************************************************)
(* Serializers used on the wire: VarUInt32 (LEB128), String, Boolean, the  *)
(* header schema.  A deserializer reads a byte sequence from the 0-based   *)
(* read cursor pos and returns [ok, value, pos]; ok = FALSE is a thrown    *)
(* error (buffer underflow).                                               *)
(***************************************************************************)
RECURSIVE Pow2(_)
Pow2(n) == IF n = 0 THEN 1 ELSE 2 * Pow2(n - 1)

\* a varint that keeps eight bits in a byte
RECURSIVE VarUInt32SerializeEightBits(_)
VarUInt32SerializeEightBits(value) ==
  IF value >= 256
    THEN <<value % 256>> \o VarUInt32SerializeEightBits(value \div 256)
    ELSE <<value>>

\* VarUInt32Serializer.serialize
RECURSIVE VarUInt32Serialize(_)
VarUInt32Serialize(value) ==
  IF value >= 128
    THEN <<(value % 128) + 128>> \o VarUInt32Serialize(value \div 128)
    ELSE <<value>>

\* (byte & 0x7F) << shift.  TLC's integers end at 2^31 - 1, so of
\* the fifth byte (shift 28) only the bits 28..30 are kept; every length,
\* code unit and index on the wire of this model is below 2^28.
ShiftedBits(byte, shift) ==
  IF shift < 28 THEN (byte % 128) * Pow2(shift) ELSE (byte % 8) * Pow2(28)

\* VarUInt32Serializer.deserialize: the loop from iteration i
RECURSIVE VarUInt32Loop(_, _, _, _, _)
VarUInt32Loop(bytes, pos, i, value, shift) ==
  IF i = 5 THEN [ok |-> TRUE, value |-> value, pos |-> pos]
  ELSE IF Len(bytes) - pos <= 0 THEN [ok |-> FALSE, value |-> 0, pos |-> pos]
  ELSE LET byte == bytes[pos + 1]
           v == value + ShiftedBits(byte, shift)
       IN  IF byte < 128 THEN [ok |-> TRUE, value |-> v, pos |-> pos + 1]
           ELSE VarUInt32Loop(bytes, pos + 1, i + 1, v, shift + 7)

VarUInt32Deserialize(bytes, pos) == VarUInt32Loop(bytes, pos, 0, 0, 0)

\* StringSerializer.serialize: the length, then every code unit
RECURSIVE StringChars(_)
StringChars(value) ==
  IF value = <<>> THEN <<>>
  ELSE VarUInt32Serialize(Head(value)) \o StringChars(Tail(value))

StringSerialize(value) == VarUInt32Serialize(Len(value)) \o StringChars(value)

\* StringSerializer.deserialize: the loop reading the remaining characters
RECURSIVE StringLoop(_, _, _, _)
StringLoop(bytes, pos, remaining, result) ==
  IF remaining = 0 THEN [ok |-> TRUE, value |-> result, pos |-> pos]
  ELSE LET c == VarUInt32Deserialize(bytes, pos)
       IN  IF ~c.ok THEN [ok |-> FALSE, value |-> <<>>, pos |-> c.pos]
           ELSE StringLoop(bytes, c.pos, remaining - 1,
                           Append(result, c.value % 65536))

StringDeserialize(bytes, pos) ==
  LET length == VarUInt32Deserialize(bytes, pos)
  IN  IF ~length.ok THEN [ok |-> FALSE, value |-> <<>>, pos |-> length.pos]
      ELSE StringLoop(bytes, length.pos, length.value, <<>>)

\* BooleanSerializer
BooleanSerialize(value) == <<IF value THEN 1 ELSE 0>>

BooleanDeserialize(bytes, pos) ==
  IF 1 > Len(bytes) - pos THEN [ok |-> FALSE, value |-> FALSE, pos |-> pos]
  ELSE [ok |-> TRUE, value |-> bytes[pos + 1] # 0, pos |-> pos + 1]

\* 'mcbe-ipc:v3'
PROTOCOL_VERSION == <<109, 99, 98, 101, 45, 105, 112, 99, 58, 118, 51>>

\* Header.generateId for the random number Math.random() * 2^32 drew
GenerateId(random) ==
  Hex2(random % 256) \o Hex2((random \div 256) % 256)
    \o Hex2((random \div 65536) % 256) \o Hex2((random \div 16777216) % 256)

\* a header that marks every fragment as the final one
HeaderCreateAlwaysFinal(guid, index, isFinal) ==
  [guid |-> guid, version |-> PROTOCOL_VERSION, index |-> index, isFinal |-> TRUE]

\* Header.create
HeaderCreate(guid, index, isFinal) ==
  [guid |-> guid, version |-> PROTOCOL_VERSION, index |-> index, isFinal |-> isFinal]

\* HeaderSerializer: the fields in declared key order
HeaderSerialize(header) ==
  StringSerialize(header.guid) \o StringSerialize(header.version)
    \o VarUInt32Serialize(header.index) \o BooleanSerialize(header.isFinal)

HeaderDeserialize(bytes) ==
  LET g == StringDeserialize(bytes, 0)
      v == StringDeserialize(bytes, g.pos)
      i == VarUInt32Deserialize(bytes, v.pos)
      f == BooleanDeserialize(bytes, i.pos)
  IN  IF g.ok /\ v.ok /\ i.ok /\ f.ok
        THEN [ok |-> TRUE,
              value |-> [guid |-> g.value, version |-> v.value,
                         index |-> i.value, isFinal |-> f.value]]
        ELSE [ok |-> FALSE, value |-> HeaderCreate(<<>>, 0, FALSE)]

(***************************************************************************)
(* HeaderCodec and the route string encodedEndpoint ':' encodedHeader      *)
(***************************************************************************)
RECURSIVE HexPairs(_)
HexPairs(bytes) ==
  IF bytes = <<>> THEN <<>> ELSE Hex2(Head(bytes)) \o HexPairs(Tail(bytes))

\* HeaderCodec.encodeToHex: '(0x' + two hexadecimal characters per byte + ')'
EncodeToHex(bytes) == <<40, 48, 120>> \o HexPairs(bytes) \o <<41>>

RECURSIVE ParsePairs(_)
ParsePairs(content) ==
  IF content = <<>> THEN <<>>
  ELSE IF Len(content) = 1 THEN <<ToByte(ParseInt16(content))>>
  ELSE <<ToByte(ParseInt16(SubSeq(content, 1, 2)))>>
         \o ParsePairs(SubSeq(content, 3, Len(content)))

\* a decodeFromHex that looks at the prefix only
DecodeFromHexPrefixOnly(hex) ==
  IF Len(hex) >= 3 /\ SubSeq(hex, 1, 3) = <<40, 48, 120>>
    THEN ParsePairs(SubSeq(hex, 4, Len(hex) - 1))
    ELSE <<>>

\* HeaderCodec.decodeFromHex: the bytes of the returned buffer
DecodeFromHex(hex) ==
  IF /\ Len(hex) >= 3
     /\ SubSeq(hex, 1, 3) = <<40, 48, 120>>
     /\ hex[Len(hex)] = 41
    THEN ParsePairs(SubSeq(hex, 4, Len(hex) - 1))
    ELSE <<>>

\* the template string MessageEmitter.emit passes to sendScriptEvent
Route(encodedEndpoint, encodedHeader) == encodedEndpoint \o <<58>> \o encodedHeader

\* event.id.split(':'): the position of the first ':' at or after from, 0 if none
RECURSIVE IndexOfColon(_, _)
IndexOfColon(id, from) ==
  IF from > Len(id) THEN 0
  ELSE IF id[from] = 58 THEN from
  ELSE IndexOfColon(id, from + 1)

\* the first two parts of event.id.split(':')
SplitRoute(id) ==
  LET c1 == IndexOfColon(id, 1)
      c2 == IF c1 = 0 THEN 0 ELSE IndexOfColon(id, c1 + 1)
  IN  [encodedEndpoint |-> IF c1 = 0 THEN id ELSE SubSeq(id, 1, c1 - 1),
       encodedHeader |->
         IF c1 = 0 THEN <<>>
         ELSE SubSeq(id, c1 + 1, IF c2 = 0 THEN Len(id) ELSE c2 - 1)]

(***************************************************************************)
(* SpecPE: PacketEncoder.encode and decode applied to every buffer over    *)
(* ByteVals of length 0..MaxBufLen and every budget 1..MaxBudget.          *)
(***************************************************************************)
VARIABLES
  peBuffer,     \* the bytes of the buffer handed to encode
  peMaxSize,    \* the size budget handed to encode
  peFragments,  \* what encode returned
  peDecoded,    \* the bytes of the buffer decode returned
  pePc          \* "input", "encoded", "decoded"

peVars == <<peBuffer, peMaxSize, peFragments, peDecoded, pePc>>

RECURSIVE SeqsUpTo(_, _)
SeqsUpTo(S, n) ==
  IF n = 0 THEN {<<>>}
  ELSE LET shorter == SeqsUpTo(S, n - 1)
       IN  shorter \cup {Append(s, x) : s \in {t \in shorter : Len(t) = n - 1}, x \in S}

PEIdle ==
  /\ peBuffer = <<>>
  /\ peMaxSize = MAX_FRAGMENT_SIZE
  /\ peFragments = <<>>
  /\ peDecoded = <<>>
  /\ pePc = "input"

PEInit ==
  /\ peBuffer \in SeqsUpTo(ByteVals, MaxBufLen)
  /\ peMaxSize \in 1..MaxBudget
  /\ peFragments = <<>>
  /\ peDecoded = <<>>
  /\ pePc = "input"

PEEncode ==
  /\ pePc = "input"
  /\ peFragments' = Encode(peBuffer, peMaxSize)
  /\ pePc' = "encoded"
  /\ UNCHANGED <<peBuffer, peMaxSize, peDecoded>>

PEDecode ==
  /\ pePc = "encoded"
  /\ peDecoded' = Decode(peFragments)
  /\ pePc' = "decoded"
  /\ UNCHANGED <<peBuffer, peMaxSize, peFragments>>

(***************************************************************************)
(* The messaging state: EndpointManager, the listeners MessageListener     *)
(* registers, the emit jobs, the transport and the receive jobs.           *)
(***************************************************************************)
Subs == 1..MaxSubs
Msgs == 1..MaxMsgs

\* the listeners and messages any of the specifications has
AllSubs == 1..(IF MaxSubs > MaxListeners THEN MaxSubs ELSE MaxListeners)
AllMsgs == 1..(2 * MaxPairInvokes)

\* endpoint names: 'a' and 'b'
Endpoints == {<<97>>, <<98>>}

\* the String values messages carry: 'A' (one fragment under a budget of 4)
\* and 'A\0' (two fragments)
Values == {<<65>>, <<65, 0>>}

\* a longer value: 'ABCD' (three fragments)
LongValues == {<<65, 66, 67, 68>>}

AllValues == Values \cup LongValues

\* the value undefined (no string), which messages emitted with PROTO.Void
\* carry
Undefined == <<-1>>

\* the channels of IPCClient: 'c'
Channels == {<<99>>}

\* `ipc:${channel}:send`, `ipc:${channel}:invoke`, `ipc:${channel}:handle`
SendEndpoint(channel) == <<105, 112, 99, 58>> \o channel \o <<58, 115, 101, 110, 100>>
InvokeEndpoint(channel) ==
  <<105, 112, 99, 58>> \o channel \o <<58, 105, 110, 118, 111, 107, 101>>
HandleEndpoint(channel) ==
  <<105, 112, 99, 58>> \o channel \o <<58, 104, 97, 110, 100, 108, 101>>

IpcEndpoints ==
  UNION {{SendEndpoint(c), InvokeEndpoint(c), HandleEndpoint(c)} : c \in Channels}

AllEndpoints == Endpoints \cup IpcEndpoints

\* the handler given to IPCClient.handle: it returns its request twice over
Handler(request) == request \o request

\* the values invoke sends: 'A'
Requests == {<<65>>}

\* the values two invokes outstanding together send: 'A' and 'B'
PairRequests == {<<65>>, <<66>>}

ReplyValues == {Handler(v) : v \in Values \cup PairRequests}

\* what a callback does when it is called
Kinds == {"returns", "throws"}

\* the guid of message m (Math.random draws a different number per message)
Guid(m) == GenerateId(m)

MsgOf(guid) ==
  IF \E m \in AllMsgs : Guid(m) = guid
    THEN CHOOSE m \in AllMsgs : Guid(m) = guid ELSE 0

\* the payload buffer of emit after serializer.serialize(value, ...): empty
\* with PROTO.Void (the value undefined), else written by PROTO.String
Payload(value) ==
  IF value = Undefined THEN <<>> ELSE StringSerialize(value)

\* what emit hands to PacketEncoder.encode for a value, tabulated
FragmentsOf ==
  [v \in AllValues \cup PairRequests \cup ReplyValues \cup {Undefined} |->
     Encode(Payload(v), MAX_FRAGMENT_SIZE)]

\* the largest fragment index of any message
MaxIndex ==
  CHOOSE n \in {Len(FragmentsOf[v]) - 1 : v \in DOMAIN FragmentsOf} :
    \A v \in DOMAIN FragmentsOf : Len(FragmentsOf[v]) - 1 <= n

\* handleEvent's reading of event.id: the endpoint, the bytes of the header
\* and the header
ParseRoute(id) ==
  LET parts == SplitRoute(id)
      headerBuffer == DecodeFromHex(parts.encodedHeader)
  IN  [endpoint |-> StringDeserialize(DecodeFromHex(parts.encodedEndpoint), 0),
       headerBuffer |-> headerBuffer,
       header |-> HeaderDeserialize(headerBuffer)]

\* the routes emit can produce, and ParseRoute tabulated on them
AllRoutes ==
  {Route(EncodeToHex(StringSerialize(e)),
         EncodeToHex(HeaderSerialize(HeaderCreate(Guid(m), i, f)))) :
     e \in AllEndpoints, m \in AllMsgs, i \in 0..MaxIndex, f \in BOOLEAN}

RouteTable == [id \in AllRoutes |-> ParseRoute(id)]

\* HeaderCodec.encodeToHex(serialized Header.create(guid, index, isFinal)) as
\* emit computes it for a fragment, tabulated
EncodedHeaders ==
  [g \in {Guid(m) : m \in AllMsgs}, i \in 0..MaxIndex, f \in BOOLEAN |->
     EncodeToHex(HeaderSerialize(HeaderCreate(g, i, f)))]

Parsed(id) == IF id \in AllRoutes THEN RouteTable[id] ELSE ParseRoute(id)

VARIABLES
  endpoints,       \* EndpointManager.endpoints: endpoint -> array id, 0 absent
  arrays,          \* the listener arrays: array id -> sequence of subscribers
  subEndpoint,     \* the endpoint subscriber s registered on (<<>> before)
  subArr,          \* the array the unregister closure of s captured, 0 before
  fragmentBuffer,  \* the fragmentBuffer map of each listener: guid -> entry
  emitJobs,        \* the emit generator of each message and, as history,
                   \* the log of its sendScriptEvent calls
  sent,            \* the events handed to system.sendScriptEvent
  deliveries,      \* how often the host raised each event
  jobs,            \* the handleEvent generators system.runJob holds
  calls,           \* history: the values each callback was called with, and
                   \* the index of the fragment whose dispatch called it
  heads,           \* history: how often each listener got each fragment
  closureCalled,   \* history: the unregister closure of s was called
  cleared,         \* history: s was dropped by clearAll
  regOrder,        \* history: the subscribers in registration order
  regAtFirst,      \* history: the subscribers registered on the endpoint
                   \* of a message when its first fragment was raised
  unheard,         \* history: no event of the message found a listener when raised
  goneAtFirst,     \* history: the subscribers whose closure had been called
                   \* when the first fragment of a message was raised
  subRole,         \* the callback listen() was given for subscriber s:
                   \* "listen" (any callback), or the one IPCClient.once,
                   \* .handle or .invoke builds
  resolved         \* history: the values the resolve function of the promise
                   \* of invoke was called with

msgVars == <<endpoints, arrays, subEndpoint, subArr, fragmentBuffer,
             emitJobs, sent, deliveries, jobs, calls, heads, closureCalled,
             cleared, regOrder, regAtFirst, goneAtFirst, unheard, subRole, resolved>>

\* the sparse array entry.fragments and the Map fragmentBuffer are functions
\* on the indices / keys that are set
Put(f, k, v) == [x \in DOMAIN f \cup {k} |-> IF x = k THEN v ELSE f[x]]
\* a delete that empties the map
DeleteAll(f, k) == [x \in {} |-> 0]
Delete(f, k) == [x \in DOMAIN f \ {k} |-> f[x]]
EmptyMap == [x \in {} |-> 0]

\* listeners.indexOf(listener), 1-based, 0 when absent
IndexOf(listeners, s) ==
  IF \E k \in 1..Len(listeners) : listeners[k] = s
    THEN CHOOSE k \in 1..Len(listeners) :
           listeners[k] = s /\ \A l \in 1..(k - 1) : listeners[l] # s
    ELSE 0

\* listeners.splice(index, 1)
Splice(listeners, k) ==
  SubSeq(listeners, 1, k - 1) \o SubSeq(listeners, k + 1, Len(listeners))

Elems(seq) == {seq[k] : k \in 1..Len(seq)}

\* EndpointManager.getListeners: the array id, 0 for undefined
GetListeners(endpoint) ==
  IF endpoint \in DOMAIN endpoints THEN endpoints[endpoint] ELSE 0

\* EndpointManager.hasListeners
HasListeners(endpoint) ==
  GetListeners(endpoint) # 0 /\ Len(arrays[GetListeners(endpoint)]) > 0

\* the subscriber registered and neither unregistered by its own closure nor
\* dropped by clearAll
Registered(s) == subArr[s] # 0 /\ ~closureCalled[s] /\ ~cleared[s]

IdleEmit ==
  [pc |-> "idle", endpoint |-> <<>>, value |-> <<>>, guid |-> <<>>,
   encodedEndpoint |-> <<>>, fragments |-> <<>>, i |-> 0, log |-> <<>>,
   owner |-> 0]

MsgInit ==
  /\ endpoints = [e \in AllEndpoints |-> 0]
  /\ arrays = [a \in AllSubs |-> <<>>]
  /\ subEndpoint = [s \in AllSubs |-> <<>>]
  /\ subArr = [s \in AllSubs |-> 0]
  /\ fragmentBuffer = [s \in AllSubs |-> EmptyMap]
  /\ emitJobs = [m \in AllMsgs |-> IdleEmit]
  /\ sent = {}
  /\ deliveries = EmptyMap
  /\ jobs = EmptyMap
  /\ calls = [s \in AllSubs |-> [m \in AllMsgs |-> <<>>]]
  /\ heads = [s \in AllSubs |-> [m \in AllMsgs |-> EmptyMap]]
  /\ closureCalled = [s \in AllSubs |-> FALSE]
  /\ cleared = [s \in AllSubs |-> FALSE]
  /\ regOrder = <<>>
  /\ regAtFirst = [m \in AllMsgs |-> {}]
  /\ goneAtFirst = [m \in AllMsgs |-> {}]
  /\ unheard = [m \in AllMsgs |-> TRUE]
  /\ subRole = [s \in AllSubs |-> "listen"]
  /\ resolved = [s \in AllSubs |-> <<>>]

(***************************************************************************)
(* EndpointManager and MessageListener.listen                              *)
(***************************************************************************)
\* MessageListener.listen(endpoint, PROTO.String, callback): a new listener
\* with its own fragmentBuffer, registered by EndpointManager.register; role
\* says which callback it was given
Listening(s, endpoint, role) ==
  /\ subArr[s] = 0
  /\ IF s = 1 THEN TRUE ELSE subArr[s - 1] # 0
  /\ LET listeners == IF endpoints[endpoint] = 0 THEN s ELSE endpoints[endpoint]
     IN  /\ endpoints' = [endpoints EXCEPT ![endpoint] = listeners]
         /\ arrays' = [arrays EXCEPT ![listeners] = Append(@, s)]
         /\ subArr' = [subArr EXCEPT ![s] = listeners]
  /\ subEndpoint' = [subEndpoint EXCEPT ![s] = endpoint]
  /\ subRole' = [subRole EXCEPT ![s] = role]
  /\ regOrder' = Append(regOrder, s)

Register(s, endpoint, role) ==
  /\ Listening(s, endpoint, role)
  /\ UNCHANGED <<fragmentBuffer, emitJobs, sent, deliveries, jobs, calls, heads,
                 closureCalled, cleared, regAtFirst, goneAtFirst, unheard, resolved>>

\* the closure register returned for s; it may be called any number of times
Removed(listeners, index) ==
  IF index # 0 THEN Splice(listeners, index) ELSE listeners

CloseWith(s, after) ==
  /\ arrays' = [arrays EXCEPT ![subArr[s]] = after]
  /\ endpoints' = IF Len(after) = 0
                    THEN [endpoints EXCEPT ![subEndpoint[s]] = 0]
                    ELSE endpoints

Unregister(s) ==
  /\ subArr[s] # 0
  /\ CloseWith(s, Removed(arrays[subArr[s]], IndexOf(arrays[subArr[s]], s)))
  /\ closureCalled' = [closureCalled EXCEPT ![s] = TRUE]
  /\ UNCHANGED <<subEndpoint, subArr, fragmentBuffer, emitJobs, sent,
                 deliveries, jobs, calls, heads, cleared, regOrder, regAtFirst,
                 goneAtFirst, unheard, subRole, resolved>>

\* EndpointManager.clearAll (MessageListener.close)
ClearAll ==
  /\ \E s \in Subs : subArr[s] # 0
  /\ endpoints' = [e \in AllEndpoints |-> 0]
  /\ cleared' = [s \in AllSubs |-> cleared[s] \/ subArr[s] # 0]
  /\ UNCHANGED <<arrays, subEndpoint, subArr, fragmentBuffer, emitJobs,
                 sent, deliveries, jobs, calls, heads, closureCalled, regOrder,
                 regAtFirst,
                 goneAtFirst, unheard, subRole, resolved>>

(***************************************************************************)
(* MessageEmitter.emit                                                     *)
(***************************************************************************)
\* emit up to the first sendScriptEvent: the guid, the encoded endpoint, the
\* serialized payload and its fragments (all local to the generator); owner
\* is the subscriber whose callback runs the generator with yield*, 0 for a
\* generator handed to system.runJob
Emitting(m, endpoint, value, owner) ==
  [pc |-> "sending", endpoint |-> endpoint, value |-> value,
   guid |-> Guid(m),
   encodedEndpoint |-> EncodeToHex(StringSerialize(endpoint)),
   fragments |-> FragmentsOf[value],
   i |-> 0, log |-> <<>>, owner |-> owner]

\* system.runJob(emit(endpoint, PROTO.String, value)).  The messages are
\* emitted in the order of their numbers and, the endpoint names being
\* interchangeable, the first one goes to 'a' or to a channel.
Scheduled(m, endpoint, value) ==
  /\ emitJobs[m].pc = "idle"
  /\ IF m = 1 THEN TRUE ELSE emitJobs[m - 1].pc # "idle"
  /\ IF m = 1 THEN endpoint # <<98>> ELSE TRUE
  /\ emitJobs' = [emitJobs EXCEPT ![m] = Emitting(m, endpoint, value, 0)]

EmitStart(m, endpoint, value) ==
  /\ Scheduled(m, endpoint, value)
  /\ UNCHANGED <<endpoints, arrays, subEndpoint, subArr, fragmentBuffer,
                 sent, deliveries, jobs, calls, heads, closureCalled, cleared,
                 regOrder, regAtFirst, goneAtFirst, unheard, subRole, resolved>>

\* the event the next iteration of the loop of emit hands to
\* system.sendScriptEvent: fragment i under the route of its header
SendCall(e) ==
  [id |-> Route(e.encodedEndpoint,
                EncodedHeaders[e.guid, e.i, e.i = Len(e.fragments) - 1]),
   message |-> e.fragments[e.i + 1]]

\* the emit generator after that iteration
AfterSend(e) ==
  [e EXCEPT !.i = e.i + 1,
            !.log = Append(@, SendCall(e)),
            !.pc = IF e.i + 1 = Len(e.fragments) THEN "done" ELSE "sending"]

\* the events sent, with the transport call added
WithSent(m, e) ==
  sent \cup {[m |-> m, index |-> e.i, id |-> SendCall(e).id,
              message |-> SendCall(e).message]}

\* one iteration of the loop of an emit generator system.runJob runs
EmitSend(m) ==
  /\ emitJobs[m].pc = "sending"
  /\ emitJobs[m].owner = 0
  /\ sent' = WithSent(m, emitJobs[m])
  /\ emitJobs' = [emitJobs EXCEPT ![m] = AfterSend(emitJobs[m])]
  /\ UNCHANGED <<endpoints, arrays, subEndpoint, subArr,
                 fragmentBuffer, deliveries, jobs, calls, heads,
                 closureCalled, cleared, regOrder, regAtFirst,
                 goneAtFirst, unheard, subRole, resolved>>

(***************************************************************************)
(* The transport: the host raises scriptEventReceive for an event that was *)
(* sent, in any order, and may raise it again; MessageListener.initialize  *)
(* starts one handleEvent job per event raised.                            *)
(***************************************************************************)
NoHeader == HeaderCreate(<<>>, 0, FALSE)

\* a handleEvent generator: its position, its locals (emit: the message a
\* handle callback is emitting), and as history the listeners it invoked, how
\* it ended, the listeners of its array it never invoked and the subscribers
\* whose closure had returned when its event was raised
NewJob(ev) ==
  [pc |-> "lookup", id |-> ev.id, message |-> ev.message, listeners |-> 0,
   header |-> NoHeader, pos |-> 0, errors |-> <<>>, cur |-> 0,
   fragmentsCopy |-> <<>>, left |-> 0, emit |-> 0, outcome |-> "running",
   invoked |-> {}, skipped |-> {}, gone |-> {}]

\* a generator that ended keeps no locals
Ended(job, outcome) ==
  [NewJob([id |-> <<>>, message |-> <<>>]) EXCEPT
     !.pc = "done", !.outcome = outcome, !.errors = job.errors,
     !.skipped = job.skipped]

Delivered(key) == IF key \in DOMAIN deliveries THEN deliveries[key] ELSE 0

\* the deliveries the transport repeated so far
Dups == Cardinality(DOMAIN jobs) - Cardinality(DOMAIN deliveries)

Deliver(ev) ==
  LET key == <<ev.m, ev.index>>
      n == Delivered(key)
  IN  /\ ev \in sent
      /\ IF n = 0 THEN TRUE ELSE Dups < MaxDup
      /\ deliveries' = Put(deliveries, key, n + 1)
      /\ jobs' = Put(jobs, <<ev.m, ev.index, n + 1>>,
                     [NewJob(ev) EXCEPT
                        !.gone = {s \in AllSubs : closureCalled[s]}])
      /\ unheard' = [unheard EXCEPT ![ev.m] =
                       @ /\ GetListeners(emitJobs[ev.m].endpoint) = 0]
      /\ regAtFirst' =
           IF \E k \in DOMAIN deliveries : k[1] = ev.m THEN regAtFirst
           ELSE [regAtFirst EXCEPT ![ev.m] =
                   {s \in AllSubs : Registered(s)
                                 /\ subEndpoint[s] = emitJobs[ev.m].endpoint}]
      /\ goneAtFirst' =
           IF \E k \in DOMAIN deliveries : k[1] = ev.m THEN goneAtFirst
           ELSE [goneAtFirst EXCEPT ![ev.m] = {s \in AllSubs : closureCalled[s]}]
      /\ UNCHANGED <<endpoints, arrays, subEndpoint, subArr,
                     fragmentBuffer, emitJobs, sent, calls, heads, closureCalled,
                     cleared, regOrder, subRole, resolved>>

(***************************************************************************)
(* The listener MessageListener.listen registers, and handleEvent          *)
(***************************************************************************)
NewEntry == [size |-> -1, fragments |-> EmptyMap, received |-> {}]

RECURSIVE TotalUnits(_)
TotalUnits(fragments) ==
  IF fragments = <<>> THEN 0
  ELSE UnitCount(Head(fragments), 1) + TotalUnits(Tail(fragments))

\* the listener's entry for header.guid after lines 92-101: found or
\* created, the size set by a final fragment, the fragment stored at its
\* index and the index added to the received set
StoredEntry(buffer, header, fragment) ==
  LET entry0 == IF header.guid \in DOMAIN buffer THEN buffer[header.guid]
                ELSE NewEntry
      entry1 == [entry0 EXCEPT
                   !.size = IF header.isFinal THEN header.index + 1 ELSE @]
  IN  [entry1 EXCEPT !.fragments = Put(@, header.index, fragment),
                     !.received = @ \cup {header.index}]

\* the entry with the fragment stored at the next free position instead
StoredEntryArrivalOrder(buffer, header, fragment) ==
  LET entry0 == IF header.guid \in DOMAIN buffer THEN buffer[header.guid]
                ELSE NewEntry
      entry1 == [entry0 EXCEPT
                   !.size = IF header.isFinal THEN header.index + 1 ELSE @]
  IN  [entry1 EXCEPT !.fragments = Put(@, Cardinality(DOMAIN @), fragment),
                     !.received = @ \cup {header.index}]

\* the completion check of lines 102-110 on the updated entry.  outcome
\* "wait": the listener returned; "throw": Missing fragment; "decode": it is
\* suspended in decode with fragmentsCopy.
CompletionCheck(buffer, header, entry) ==
  LET complete == entry.size # -1 /\ Cardinality(entry.received) = entry.size
      missing == \E i \in 0..(entry.size - 1) :
                   i \notin DOMAIN entry.fragments \/ entry.fragments[i] = <<>>
  IN  [buffer |-> Put(buffer, header.guid, entry),
       outcome |-> IF ~complete THEN "wait"
                   ELSE IF missing THEN "throw" ELSE "decode",
       fragmentsCopy |-> IF complete /\ ~missing
                           THEN [i \in 1..entry.size |-> entry.fragments[i - 1]]
                           ELSE <<>>]

\* a check that dispatches what the entry holds once the final fragment is in
CompletionCheckOnFinal(buffer, header, entry) ==
  [buffer |-> Put(buffer, header.guid, entry),
   outcome |-> IF entry.size = -1 THEN "wait" ELSE "decode",
   fragmentsCopy |-> IF entry.size = -1 THEN <<>>
                     ELSE [i \in 1..entry.size |->
                             IF i - 1 \in DOMAIN entry.fragments
                               THEN entry.fragments[i - 1] ELSE <<>>]]

\* the listener storing the fragments in the order they arrive
ListenerHeadArrivalOrder(buffer, header, fragment) ==
  CompletionCheck(buffer, header,
                  StoredEntryArrivalOrder(buffer, header, fragment))

\* the listener dispatching as soon as the final fragment is in
ListenerHeadOnFinal(buffer, header, fragment) ==
  CompletionCheckOnFinal(buffer, header, StoredEntry(buffer, header, fragment))

\* a listener that keeps one entry for the fragments of every guid
ListenerHeadOneEntry(buffer, header, fragment) ==
  CompletionCheck(buffer, [header EXCEPT !.guid = <<>>],
                  StoredEntry(buffer, [header EXCEPT !.guid = <<>>], fragment))

\* the listener from its call to the first suspension point of
\* PacketEncoder.decode
ListenerHead(buffer, header, fragment) ==
  CompletionCheck(buffer, header, StoredEntry(buffer, header, fragment))

\* how handleEvent ends after the loop over the listeners: the errors are
\* written to the console and the generator returns
HandleEventEnd(job) == Ended(job, "returned")

\* an exception leaves handleEvent
HandleEventThrow(job) == Ended(job, "threw")

\* the state a listener and its callback read and write; w is a value of
\* this shape
World ==
  [fb |-> fragmentBuffer, calls |-> calls, heads |-> heads, arrays |-> arrays,
   endpoints |-> endpoints, closureCalled |-> closureCalled,
   emitJobs |-> emitJobs, resolved |-> resolved]

\* the closure register returned for s, called by a callback (terminate())
Terminate(w, s) ==
  LET after == Removed(w.arrays[subArr[s]], IndexOf(w.arrays[subArr[s]], s))
  IN  [w EXCEPT !.arrays[subArr[s]] = after,
                !.endpoints[subEndpoint[s]] = IF Len(after) = 0 THEN 0 ELSE @,
                !.closureCalled[s] = TRUE]

\* the next message number free for an emit
NextMsg(w) ==
  CHOOSE m \in AllMsgs :
    /\ w.emitJobs[m].pc = "idle"
    /\ \A n \in 1..(m - 1) : w.emitJobs[n].pc # "idle"

\* the channel of handler s, which listens on `ipc:${channel}:invoke`
ChannelOf(s) == CHOOSE c \in Channels : InvokeEndpoint(c) = subEndpoint[s]

\* a handle listener that answers with the request instead of with what the
\* handler returned
ReplyEchoesRequest(m, s, request) ==
  Emitting(m, HandleEndpoint(ChannelOf(s)), request, s)

\* emitter.emit(`ipc:${channel}:handle`, serializer, response) of the listener
\* of handle, response being what the handler returned for the request
Reply(m, s, request) ==
  Emitting(m, HandleEndpoint(ChannelOf(s)), Handler(request), s)

\* the callback of listener s called with value; kind says whether the
\* function the user gave returns or throws.  The callback given to listen
\* directly only does that; the one of once calls terminate() after the
\* user's function; the one of invoke calls resolve and terminate(); the one
\* of handle starts yield* emitter.emit with what the handler returned and
\* is left suspended in it.
CallbackBody(w, job, s, kind, value) ==
  IF subRole[s] = "invoke"
    THEN [w |-> Terminate([w EXCEPT !.resolved[s] = Append(@, value)], s),
          job |-> job, threw |-> FALSE]
  ELSE IF kind = "throws" THEN [w |-> w, job |-> job, threw |-> TRUE]
  ELSE IF subRole[s] = "once"
    THEN [w |-> Terminate(w, s), job |-> job, threw |-> FALSE]
  ELSE IF subRole[s] = "handle"
    THEN [w |-> [w EXCEPT !.emitJobs[NextMsg(w)] = Reply(NextMsg(w), s, value)],
          job |-> [job EXCEPT !.pc = "emit", !.emit = NextMsg(w)],
          threw |-> FALSE]
  ELSE [w |-> w, job |-> job, threw |-> FALSE]

\* the listener's frame is left: the loop of handleEvent goes to the next
\* listener, with the error the listener threw, if any
Leave(job, error) ==
  [job EXCEPT !.errors = @ \o error, !.pos = @ + 1, !.cur = 0,
              !.fragmentsCopy = <<>>, !.left = 0, !.emit = 0]

\* the listener of job.cur after decode returned: the entry is deleted, then
\* value is what deserialize returned (or its error) and the callback is
\* called
Callback(w, job, kind, value) ==
  LET s == job.cur
      m == MsgOf(job.header.guid)
      called == value.ok /\ m # 0
      w1 == [w EXCEPT !.fb[s] = Delete(@, job.header.guid),
                      !.calls[s] = IF called
                                     THEN [@ EXCEPT ![m] = Append(@,
                                             [value |-> value.value,
                                              index |-> job.header.index])]
                                     ELSE @]
      body == CallbackBody(w1, job, s, kind, value.value)
  IN  IF ~value.ok
        THEN [w |-> w1,
              job |-> Leave(job, <<[listener |-> s, error |-> "deserialize"]>>)]
      ELSE IF body.threw
        THEN [w |-> w1,
              job |-> Leave(job, <<[listener |-> s, error |-> "callback"]>>)]
      ELSE IF body.job.pc = "emit" THEN [w |-> body.w, job |-> body.job]
      ELSE [w |-> body.w, job |-> Leave(job, <<>>)]

\* deserializer.deserialize(dataBuffer) of the listener of s: PROTO.Void
\* reads nothing and returns undefined, every other listener was given
\* PROTO.String
DeserializerOf(s, bytes) ==
  IF subRole[s] = "void" THEN [ok |-> TRUE, value |-> Undefined, pos |-> 0]
  ELSE StringDeserialize(bytes, 0)

\* the listener of job.cur from the last suspension point of decode to its
\* end
ListenerTail(w, job, kind) ==
  Callback(w, job, kind, DeserializerOf(job.cur, Decode(job.fragmentsCopy)))

\* the for-of loop of handleEvent over the live listener array, from
\* position job.pos up to the next suspension point or the end of the array
RECURSIVE RunListeners(_, _)

\* one iteration: listener s was called with the fragment of message m and h
\* is how far it ran
Iteration(w, job, s, m, h) ==
  LET n == IF job.header.index \in DOMAIN w.heads[s][m]
             THEN w.heads[s][m][job.header.index] ELSE 0
      w1 == [w EXCEPT !.fb[s] = h.buffer,
                      !.heads[s][m] = Put(@, job.header.index, n + 1)]
      j1 == [job EXCEPT !.invoked = @ \cup {s}]
  IN  CASE h.outcome = "wait" ->
             RunListeners(w1, [j1 EXCEPT !.pos = @ + 1])
        [] h.outcome = "throw" ->
             RunListeners(w1, [j1 EXCEPT !.pos = @ + 1,
               !.errors = Append(@, [listener |-> s, error |-> "missing"])])
        [] h.outcome = "decode" ->
             [w |-> w1,
              job |-> [j1 EXCEPT !.pc = "decode", !.cur = s,
                                 !.fragmentsCopy = h.fragmentsCopy,
                                 !.left = TotalUnits(h.fragmentsCopy)]]

CallListener(w, job, s) ==
  Iteration(w, job, s, MsgOf(job.header.guid),
            ListenerHead(w.fb[s], job.header, job.message))

RunListeners(w, job) ==
  IF job.pos >= Len(w.arrays[job.listeners])
    THEN [w |-> w,
          job |-> HandleEventEnd([job EXCEPT !.skipped =
                    Elems(w.arrays[job.listeners]) \ job.invoked])]
  ELSE CallListener(w, job, w.arrays[job.listeners][job.pos + 1])

\* what a step of a job leaves alone besides the World and the events sent
JobFrame == <<subEndpoint, subArr, subRole, deliveries, cleared, regOrder,
              regAtFirst, goneAtFirst, unheard>>

WorldVars == <<fragmentBuffer, calls, heads, arrays, endpoints, closureCalled,
               emitJobs, resolved>>

\* job k ran up to r: its next suspension point or its end
Suspend(k, r) ==
  /\ jobs' = [jobs EXCEPT ![k] = r.job]
  /\ fragmentBuffer' = r.w.fb
  /\ calls' = r.w.calls
  /\ heads' = r.w.heads
  /\ arrays' = r.w.arrays
  /\ endpoints' = r.w.endpoints
  /\ closureCalled' = r.w.closureCalled
  /\ emitJobs' = r.w.emitJobs
  /\ resolved' = r.w.resolved

\* the loop goes on after the listener that was suspended ended as t, unless
\* its callback is suspended in an emit
Resume(t) == IF t.job.pc = "emit" THEN t ELSE RunListeners(t.w, t.job)

\* handleEvent up to the first suspension point of the header's decodeFromHex:
\* the route is split, the endpoint decoded and the listeners looked up
JobLookup(k) ==
  LET job == jobs[k]
      endpoint == Parsed(job.id).endpoint
      listeners == GetListeners(endpoint.value)
      headerBuffer == Parsed(job.id).headerBuffer
  IN  /\ job.pc = "lookup"
      /\ jobs' = [jobs EXCEPT ![k] =
           IF ~endpoint.ok THEN HandleEventThrow(job)
           ELSE IF listeners = 0 \/ Len(arrays[listeners]) = 0
             THEN HandleEventEnd(job)
           ELSE IF headerBuffer = <<>> THEN HandleEventThrow(job)
           ELSE [job EXCEPT !.pc = "header", !.listeners = listeners]]
      /\ UNCHANGED <<JobFrame, WorldVars, sent>>

\* handleEvent from the last suspension point of the header's decodeFromHex:
\* the header is deserialized and the loop over the listeners starts
JobDispatch(k) ==
  LET job == jobs[k]
      header == Parsed(job.id).header
  IN  /\ job.pc = "header"
      /\ IF ~header.ok
           THEN /\ jobs' = [jobs EXCEPT ![k] =
                     HandleEventThrow([job EXCEPT !.skipped =
                                         Elems(arrays[job.listeners])])]
                /\ UNCHANGED WorldVars
           ELSE \E r \in {RunListeners(World,
                                       [job EXCEPT !.header = header.value])} :
                  Suspend(k, r)
      /\ UNCHANGED <<JobFrame, sent>>

\* PacketEncoder.decode inside a listener, from one suspension point to the
\* next
JobDecodeStep(k) ==
  /\ jobs[k].pc = "decode"
  /\ jobs[k].left > 1
  /\ jobs' = [jobs EXCEPT ![k].left = @ - 1]
  /\ UNCHANGED <<JobFrame, WorldVars, sent>>

\* from the last suspension point of decode: the rest of the listener, then
\* the loop over the remaining listeners.  A handler answers while the model
\* has a message number left.
JobDecodeEnd(k, kind) ==
  /\ jobs[k].pc = "decode"
  /\ jobs[k].left = 1
  /\ subRole[jobs[k].cur] = "handle" =>
       \E m \in AllMsgs : emitJobs[m].pc = "idle"
  /\ \E r \in {Resume(ListenerTail(World, jobs[k], kind))} : Suspend(k, r)
  /\ UNCHANGED <<JobFrame, sent>>

\* the callback of a handler suspended in yield* emitter.emit: one iteration
\* of the loop of emit; after the last one emit, the callback and the
\* listener return and the loop over the listeners goes on
EmitStep(k, e, w) ==
  /\ sent' = WithSent(jobs[k].emit, e)
  /\ Suspend(k, IF AfterSend(e).pc = "done"
                  THEN RunListeners(w, Leave(jobs[k], <<>>))
                  ELSE [w |-> w, job |-> jobs[k]])

JobEmitSend(k) ==
  /\ jobs[k].pc = "emit"
  /\ EmitStep(k, emitJobs[jobs[k].emit],
              [World EXCEPT !.emitJobs[jobs[k].emit] = AfterSend(@)])
  /\ UNCHANGED JobFrame

(***************************************************************************)
(* The schema serializers of proto/serializers.  A serializer is a record  *)
(* with its kind and its child serializers; [kind |-> "undefined"] stands  *)
(* for a child that is missing.  JavaScript values: a string is the        *)
(* sequence of its code units, an array or tuple a sequence, an object a   *)
(* function on its keys, a Map the sequence of its [key, value] pairs and  *)
(* a Set the sequence of its members, both in insertion order.             *)
(***************************************************************************)
BooleanS == [kind |-> "Boolean"]
VarUInt32S == [kind |-> "VarUInt32"]
VarInt32S == [kind |-> "VarInt32"]
StringS == [kind |-> "String"]
UndefinedChild == [kind |-> "undefined"]
ArrayS(elementSerializer) ==
  [kind |-> "Array", elementSerializer |-> elementSerializer]
SetS(elementSerializer) ==
  [kind |-> "Set", elementSerializer |-> elementSerializer]
MapS(keySerializer, valueSerializer) ==
  [kind |-> "Map", keySerializer |-> keySerializer,
   valueSerializer |-> valueSerializer]
TupleS(serializers) == [kind |-> "Tuple", serializers |-> serializers]
\* keys: the keys of the schema in for-in order
ObjectS(keys, schema) == [kind |-> "Object", keys |-> keys, schema |-> schema]

\* values a Map or Set compares by value (SameValueZero); objects are
\* compared by identity, and every object deserialize builds is a new one
IsPrimitive(s) == s.kind \in {"Boolean", "VarUInt32", "VarInt32", "String"}

\* Map.prototype.set on the pairs in insertion order
MapSet(pairs, byValue, key, val) ==
  IF byValue /\ \E i \in 1..Len(pairs) : pairs[i][1] = key
    THEN [i \in 1..Len(pairs) |->
            IF pairs[i][1] = key THEN <<key, val>> ELSE pairs[i]]
    ELSE Append(pairs, <<key, val>>)

\* Set.prototype.add on the members in insertion order
SetAdd(members, byValue, item) ==
  IF byValue /\ \E i \in 1..Len(members) : members[i] = item
    THEN members ELSE Append(members, item)

\* VarInt32Serializer: (value << 1) ^ (value >> 31) is 2 * value for a value
\* >= 0 and, x ^ -1 being -x - 1, -2 * value - 1 for a negative one (values
\* of magnitude below 2^30)
ZigZag(value) == IF value >= 0 THEN 2 * value ELSE -2 * value - 1

VarInt32Serialize(value) == VarUInt32Serialize(ZigZag(value))

\* (zigzag >>> 1) ^ -(zigzag & 1)
VarInt32Deserialize(bytes, pos) ==
  LET zigzag == VarUInt32Deserialize(bytes, pos)
  IN  IF ~zigzag.ok THEN zigzag
      ELSE [zigzag EXCEPT !.value = IF @ % 2 = 0 THEN @ \div 2
                                    ELSE -(@ \div 2) - 1]

\* serialize of every serializer: the bytes it writes
RECURSIVE Serialize(_, _)
RECURSIVE SerializeItems(_, _)
RECURSIVE SerializePairs(_, _, _)
RECURSIVE SerializeTuple(_, _, _)
RECURSIVE SerializeObject(_, _, _)

\* for (const item of value) yield* elementSerializer.serialize(item, buffer)
SerializeItems(s, items) ==
  IF items = <<>> THEN <<>>
  ELSE Serialize(s, Head(items)) \o SerializeItems(s, Tail(items))

\* pairs written value first
RECURSIVE SerializePairsValueFirst(_, _, _)
SerializePairsValueFirst(ks, vs, pairs) ==
  IF pairs = <<>> THEN <<>>
  ELSE Serialize(vs, Head(pairs)[2]) \o Serialize(ks, Head(pairs)[1])
         \o SerializePairsValueFirst(ks, vs, Tail(pairs))

\* for (const [k, v] of value)
SerializePairs(ks, vs, pairs) ==
  IF pairs = <<>> THEN <<>>
  ELSE Serialize(ks, Head(pairs)[1]) \o Serialize(vs, Head(pairs)[2])
         \o SerializePairs(ks, vs, Tail(pairs))

\* TupleSerializer.serialize from index i (1-based)
SerializeTuple(serializers, value, i) ==
  IF i > Len(serializers) THEN <<>>
  ELSE Serialize(serializers[i], value[i])
         \o SerializeTuple(serializers, value, i + 1)

\* ObjectSerializer.serialize from the i-th key
SerializeObject(s, value, i) ==
  IF i > Len(s.keys) THEN <<>>
  ELSE Serialize(s.schema[s.keys[i]], value[s.keys[i]])
         \o SerializeObject(s, value, i + 1)

Serialize(s, value) ==
  CASE s.kind = "Boolean" -> BooleanSerialize(value)
    [] s.kind = "VarUInt32" -> VarUInt32Serialize(value)
    [] s.kind = "VarInt32" -> VarInt32Serialize(value)
    [] s.kind = "String" -> StringSerialize(value)
    [] s.kind = "Array" ->
         VarUInt32Serialize(Len(value))
           \o SerializeItems(s.elementSerializer, value)
    [] s.kind = "Set" ->
         VarUInt32Serialize(Len(value))
           \o SerializeItems(s.elementSerializer, value)
    [] s.kind = "Map" ->
         VarUInt32Serialize(Len(value))
           \o SerializePairs(s.keySerializer, s.valueSerializer, value)
    [] s.kind = "Tuple" -> SerializeTuple(s.serializers, value, 1)
    [] s.kind = "Object" -> SerializeObject(s, value, 1)

\* deserialize of every serializer from the read cursor pos: [ok, value,
\* pos], ok = FALSE for a thrown error
RECURSIVE Deserialize(_, _, _)
RECURSIVE DeserializeItems(_, _, _, _, _, _)
RECURSIVE DeserializePairs(_, _, _, _, _, _)
RECURSIVE DeserializeTuple(_, _, _, _, _)
RECURSIVE DeserializeObject(_, _, _, _, _)

Thrown(pos) == [ok |-> FALSE, value |-> <<>>, pos |-> pos]

\* the loops of ArraySerializer.deserialize (asSet = FALSE: result.push) and
\* SetSerializer.deserialize (asSet = TRUE: result.add)
DeserializeItems(s, asSet, bytes, pos, remaining, result) ==
  IF remaining = 0 THEN [ok |-> TRUE, value |-> result, pos |-> pos]
  ELSE LET item == Deserialize(s, bytes, pos)
       IN  IF ~item.ok THEN Thrown(item.pos)
           ELSE DeserializeItems(s, asSet, bytes, item.pos, remaining - 1,
                  IF asSet THEN SetAdd(result, IsPrimitive(s), item.value)
                  ELSE Append(result, item.value))

\* the loop of MapSerializer.deserialize
DeserializePairs(ks, vs, bytes, pos, remaining, result) ==
  IF remaining = 0 THEN [ok |-> TRUE, value |-> result, pos |-> pos]
  ELSE LET key == Deserialize(ks, bytes, pos)
       IN  IF ~key.ok THEN Thrown(key.pos)
           ELSE LET val == Deserialize(vs, bytes, key.pos)
                IN  IF ~val.ok THEN Thrown(val.pos)
                    ELSE DeserializePairs(ks, vs, bytes, val.pos,
                           remaining - 1,
                           MapSet(result, IsPrimitive(ks), key.value,
                                  val.value))

\* the loop of TupleSerializer.deserialize from index i (1-based): a
\* serializer that is missing is reported on the console and skipped
DeserializeTuple(serializers, bytes, pos, i, result) ==
  IF i > Len(serializers) THEN [ok |-> TRUE, value |-> result, pos |-> pos]
  ELSE IF serializers[i].kind = "undefined"
    THEN DeserializeTuple(serializers, bytes, pos, i + 1, result)
  ELSE LET item == Deserialize(serializers[i], bytes, pos)
       IN  IF ~item.ok THEN Thrown(item.pos)
           ELSE DeserializeTuple(serializers, bytes, item.pos, i + 1,
                                 Append(result, item.value))

\* the loop of ObjectSerializer.deserialize from the i-th key: a serializer
\* that is missing is reported on the console and its key left out
DeserializeObject(s, bytes, pos, i, result) ==
  IF i > Len(s.keys) THEN [ok |-> TRUE, value |-> result, pos |-> pos]
  ELSE IF s.schema[s.keys[i]].kind = "undefined"
    THEN DeserializeObject(s, bytes, pos, i + 1, result)
  ELSE LET item == Deserialize(s.schema[s.keys[i]], bytes, pos)
       IN  IF ~item.ok THEN Thrown(item.pos)
           ELSE DeserializeObject(s, bytes, item.pos, i + 1,
                  [k \in DOMAIN result \cup {s.keys[i]} |->
                     IF k = s.keys[i] THEN item.value ELSE result[k]])

\* the length prefix, then the loop of the collection
DeserializeCounted(s, bytes, pos) ==
  LET length == VarUInt32Deserialize(bytes, pos)
  IN  IF ~length.ok THEN Thrown(length.pos)
      ELSE CASE s.kind = "Array" ->
                  IF s.elementSerializer.kind = "undefined"
                    THEN [ok |-> TRUE, value |-> <<>>, pos |-> length.pos]
                    ELSE DeserializeItems(s.elementSerializer, FALSE, bytes,
                                          length.pos, length.value, <<>>)
             [] s.kind = "Set" ->
                  DeserializeItems(s.elementSerializer, TRUE, bytes,
                                   length.pos, length.value, <<>>)
             [] s.kind = "Map" ->
                  DeserializePairs(s.keySerializer, s.valueSerializer, bytes,
                                   length.pos, length.value, <<>>)

Deserialize(s, bytes, pos) ==
  CASE s.kind = "Boolean" -> BooleanDeserialize(bytes, pos)
    [] s.kind = "VarUInt32" -> VarUInt32Deserialize(bytes, pos)
    [] s.kind = "VarInt32" -> VarInt32Deserialize(bytes, pos)
    [] s.kind = "String" -> StringDeserialize(bytes, pos)
    [] s.kind \in {"Array", "Set", "Map"} -> DeserializeCounted(s, bytes, pos)
    [] s.kind = "Tuple" ->
         DeserializeTuple(s.serializers, bytes, pos, 1, <<>>)
    [] s.kind = "Object" ->
         DeserializeObject(s, bytes, pos, 1, [k \in {} |-> 0])
    [] s.kind = "undefined" -> Thrown(pos)

(***************************************************************************)
(* SpecSer: a value is serialized into a fresh ByteBuffer and read back,   *)
(* by the serializer that wrote it or by a reader with a missing child,    *)
(* from all the bytes or from a buffer cut short.                          *)
(***************************************************************************)
VARIABLES
  serSchema,   \* the serializer that writes
  serValue,    \* the value it is given
  serBytes,    \* the bytes it wrote
  serReader,   \* the serializer that reads
  serCut,      \* how many bytes at the end the reader's buffer lacks
  serOut,      \* what deserialize returned: [ok, value, pos]
  serPc        \* "input", "serialized", "deserialized"

serVars == <<serSchema, serValue, serBytes, serReader, serCut, serOut, serPc>>

\* the values of the leaf serializers in the inputs: code units and numbers
\* that take one, two and three bytes
SerChars == {65, 128, 65535}
UIntVals == {0, 127, 128, 16384}

\* the serializers of the inputs
SerSchemas ==
  {StringS,
   ArrayS(VarUInt32S),
   ArrayS(StringS),
   ArrayS(TupleS(<<BooleanS, VarUInt32S>>)),
   SetS(VarUInt32S),
   SetS(ArrayS(BooleanS)),
   MapS(BooleanS, StringS),
   MapS(ArrayS(BooleanS), BooleanS),
   TupleS(<<VarUInt32S, StringS, BooleanS>>),
   ObjectS(<<"id", "name", "tags">>,
           [id |-> VarUInt32S, name |-> StringS, tags |-> ArrayS(BooleanS)])}

NoDuplicates(seq) ==
  \A i, j \in 1..Len(seq) : i # j => seq[i] # seq[j]

\* the values of a serializer's type, collections of up to MaxItems entries
RECURSIVE ValuesOf(_)
RECURSIVE TupleValues(_, _)

TupleValues(serializers, i) ==
  IF i > Len(serializers) THEN {<<>>}
  ELSE {<<h>> \o t : h \in ValuesOf(serializers[i]),
                     t \in TupleValues(serializers, i + 1)}

ValuesOf(s) ==
  CASE s.kind = "Boolean" -> BOOLEAN
    [] s.kind = "VarUInt32" -> UIntVals
    [] s.kind = "String" -> SeqsUpTo(SerChars, MaxStringLen)
    [] s.kind = "Array" -> SeqsUpTo(ValuesOf(s.elementSerializer), MaxItems)
    [] s.kind = "Set" ->
         {q \in SeqsUpTo(ValuesOf(s.elementSerializer), MaxItems) :
            IsPrimitive(s.elementSerializer) => NoDuplicates(q)}
    [] s.kind = "Map" ->
         {q \in SeqsUpTo(ValuesOf(s.keySerializer)
                           \X ValuesOf(s.valueSerializer), MaxItems) :
            IsPrimitive(s.keySerializer) =>
              NoDuplicates([i \in 1..Len(q) |-> q[i][1]])}
    [] s.kind = "Tuple" -> TupleValues(s.serializers, 1)
    [] s.kind = "Object" ->
         {[k \in {s.keys[i] : i \in 1..Len(s.keys)} |->
             t[CHOOSE i \in 1..Len(s.keys) : s.keys[i] = k]] :
            t \in TupleValues([i \in 1..Len(s.keys) |-> s.schema[s.keys[i]]],
                              1)}

\* the serializer itself and the serializer with one child missing
ReadersOf(s) ==
  {s} \cup
  CASE s.kind = "Array" -> {ArrayS(UndefinedChild)}
    [] s.kind = "Tuple" ->
         {TupleS([s.serializers EXCEPT ![i] = UndefinedChild]) :
            i \in 1..Len(s.serializers)}
    [] s.kind = "Object" ->
         {ObjectS(s.keys, [s.schema EXCEPT ![s.keys[i]] = UndefinedChild]) :
            i \in 1..Len(s.keys)}
    [] OTHER -> {}

HasMissingChild(s) ==
  CASE s.kind = "Array" -> s.elementSerializer.kind = "undefined"
    [] s.kind = "Tuple" ->
         \E i \in 1..Len(s.serializers) : s.serializers[i].kind = "undefined"
    [] s.kind = "Object" ->
         \E i \in 1..Len(s.keys) : s.schema[s.keys[i]].kind = "undefined"
    [] OTHER -> FALSE

VarUInt32Inputs == [schema : {VarUInt32S}, value : 0..MaxVarUInt]
VarInt32Inputs == [schema : {VarInt32S}, value : (-MaxVarInt)..MaxVarInt]

SerIdle ==
  /\ serSchema = StringS
  /\ serValue = <<>>
  /\ serBytes = <<>>
  /\ serReader = StringS
  /\ serCut = 0
  /\ serOut = Thrown(0)
  /\ serPc = "input"

SerInit ==
  /\ \/ serSchema \in SerSchemas /\ serValue \in ValuesOf(serSchema)
     \/ \E input \in VarUInt32Inputs \cup VarInt32Inputs :
          serSchema = input.schema /\ serValue = input.value
  /\ serBytes = <<>>
  /\ serReader = serSchema
  /\ serCut = 0
  /\ serOut = Thrown(0)
  /\ serPc = "input"

\* serializer.serialize(value, new ByteBuffer())
SerSerialize ==
  /\ serPc = "input"
  /\ serBytes' = Serialize(serSchema, serValue)
  /\ serPc' = "serialized"
  /\ UNCHANGED <<serSchema, serValue, serReader, serCut, serOut>>

\* reader.deserialize(buffer), the buffer holding the bytes written but the
\* last cut
SerDeserialize(reader, cut) ==
  /\ serPc = "serialized"
  /\ cut <= Len(serBytes)
  /\ serReader' = reader
  /\ serCut' = cut
  /\ serOut' = Deserialize(reader, SubSeq(serBytes, 1, Len(serBytes) - cut), 0)
  /\ serPc' = "deserialized"
  /\ UNCHANGED <<serSchema, serValue, serBytes>>

(***************************************************************************)
(* ByteBuffer: the byte array (its length is the capacity) and the two     *)
(* cursors.  Sizes and lengths are byte counts (integers >= 0).            *)
(***************************************************************************)
VARIABLES
  bbBytes,     \* this.bytes, 1-based: bbBytes[i + 1] is bytes[i]
  bbWritePos,  \* this.writePos
  bbReadPos,   \* this.readPos
  bbLast       \* history: the last call and what it returned or that it threw

bbVars == <<bbBytes, bbWritePos, bbReadPos, bbLast>>

Zeros(n) == [i \in 1..n |-> 0]

\* what a call leaves behind in bbLast
Call(op, size, threw, returned) ==
  [op |-> op, size |-> size, threw |-> threw, returned |-> returned]

\* toUint8Array(): the bytes written
Written(bytes, writePos) == SubSeq(bytes, 1, writePos)

BBIdle ==
  /\ bbBytes = <<>>
  /\ bbWritePos = 0
  /\ bbReadPos = 0
  /\ bbLast = [op |-> "new", size |-> 0, threw |-> FALSE, returned |-> 0]

\* new ByteBuffer(initialSize)
BBInit ==
  \E initialSize \in 0..MaxInitialSize :
    /\ bbBytes = Zeros(initialSize)
    /\ bbWritePos = 0
    /\ bbReadPos = 0
    /\ bbLast = [op |-> "new", size |-> initialSize, threw |-> FALSE,
                 returned |-> 0]

\* an ensureCapacity that grows to exactly what is required
EnsureCapacityExact(bytes, writePos, needed) ==
  IF writePos + needed > Len(bytes)
    THEN bytes \o Zeros(writePos + needed - Len(bytes))
    ELSE bytes

\* ensureCapacity(needed): the byte array afterwards
EnsureCapacity(bytes, writePos, needed) ==
  LET required == writePos + needed
      newSize == IF Len(bytes) * 2 > required THEN Len(bytes) * 2 ELSE required
  IN  IF required > Len(bytes)
        THEN bytes \o Zeros(newSize - Len(bytes))
        ELSE bytes

\* bytes.set(data, offset), offset 0-based
SetBytes(bytes, data, offset) ==
  [i \in 1..Len(bytes) |->
     IF i > offset /\ i <= offset + Len(data) THEN data[i - offset]
     ELSE bytes[i]]

\* allocate(size); the model stops writing at MaxWritePos
BBAllocate(size) ==
  /\ bbWritePos + size <= MaxWritePos
  /\ bbBytes' = EnsureCapacity(bbBytes, bbWritePos, size)
  /\ bbWritePos' = bbWritePos + size
  /\ bbLast' = Call("allocate", size, FALSE, bbWritePos)
  /\ UNCHANGED bbReadPos

\* an advance that does not look at what is available
AdvanceUnchecked(size) ==
  /\ bbReadPos' = bbReadPos + size
  /\ bbLast' = Call("advance", size, FALSE, bbReadPos)

\* the body of advance(size)
Advance(size) ==
  IF size > bbWritePos - bbReadPos
    THEN /\ bbLast' = Call("advance", size, TRUE, 0)
         /\ UNCHANGED bbReadPos
    ELSE /\ bbReadPos' = bbReadPos + size
         /\ bbLast' = Call("advance", size, FALSE, bbReadPos)

\* advance(size)
BBAdvance(size) ==
  /\ Advance(size)
  /\ UNCHANGED <<bbBytes, bbWritePos>>

\* writeByte(value)
BBWriteByte(value) ==
  /\ bbWritePos + 1 <= MaxWritePos
  /\ bbBytes' = SetBytes(EnsureCapacity(bbBytes, bbWritePos, 1),
                         <<value % 256>>, bbWritePos)
  /\ bbWritePos' = bbWritePos + 1
  /\ bbLast' = Call("writeByte", 1, FALSE, 0)
  /\ UNCHANGED bbReadPos

\* writeBytes(data)
BBWriteBytes(data) ==
  /\ bbWritePos + Len(data) <= MaxWritePos
  /\ bbBytes' = SetBytes(EnsureCapacity(bbBytes, bbWritePos, Len(data)),
                         data, bbWritePos)
  /\ bbWritePos' = bbWritePos + Len(data)
  /\ bbLast' = Call("writeBytes", Len(data), FALSE, 0)
  /\ UNCHANGED bbReadPos

\* readByte(): advance(1), then bytes[offset]
BBReadByte ==
  /\ IF 1 > bbWritePos - bbReadPos
       THEN bbLast' = Call("readByte", 1, TRUE, 0)
       ELSE bbLast' = Call("readByte", 1, FALSE, bbBytes[bbReadPos + 1])
  /\ bbReadPos' = IF 1 > bbWritePos - bbReadPos THEN bbReadPos
                  ELSE bbReadPos + 1
  /\ UNCHANGED <<bbBytes, bbWritePos>>

\* readBytes(length): advance(length), then bytes.slice(offset, offset + length)
BBReadBytes(length) ==
  /\ IF length > bbWritePos - bbReadPos
       THEN bbLast' = Call("readBytes", length, TRUE, <<>>)
       ELSE bbLast' = Call("readBytes", length, FALSE,
                           SubSeq(bbBytes, bbReadPos + 1, bbReadPos + length))
  /\ bbReadPos' = IF length > bbWritePos - bbReadPos THEN bbReadPos
                  ELSE bbReadPos + length
  /\ UNCHANGED <<bbBytes, bbWritePos>>

\* resetRead()
BBResetRead ==
  /\ bbReadPos' = 0
  /\ bbLast' = Call("resetRead", 0, FALSE, 0)
  /\ UNCHANGED <<bbBytes, bbWritePos>>

\* a clear that moves the write cursor only
BBClearWriteOnly ==
  /\ bbWritePos' = 0
  /\ bbLast' = Call("clear", 0, FALSE, 0)
  /\ UNCHANGED <<bbBytes, bbReadPos>>

\* clear()
BBClear ==
  /\ bbWritePos' = 0
  /\ bbReadPos' = 0
  /\ bbLast' = Call("clear", 0, FALSE, 0)
  /\ UNCHANGED bbBytes

(***************************************************************************)
(* The legacy MessageListener (net/MessageListener.js): one listener, the  *)
(* fragments of one message (one guid) arriving in any order, any of them  *)
(* any number of times.  An entry of the listener's buffer is an object;   *)
(* a job that found its entry complete keeps the object while the Map may  *)
(* already hold another one.  serialized_packets is the set of the indices *)
(* the sparse array has an element at: the element at an index is the text *)
(* of the fragment with that index.                                        *)
(***************************************************************************)
VARIABLES
  legSize,      \* the number of fragments of the message: the final one has index legSize - 1
  legBuffer,    \* buffer.get(guid): the id of the entry, 0 when the Map has none
  legEntries,   \* the entry objects: legEntries[id] is { size, serialized_packets, data_size }
  legJobs,      \* the runs of the listener that found the entry complete
  legCalls,     \* history: serialized_packets of the entry, for every callback(value)
  legArrivals   \* history: the indices of the fragments in the order of arrival

legVars == <<legSize, legBuffer, legEntries, legJobs, legCalls, legArrivals>>

LegIdle ==
  /\ legSize = 1
  /\ legBuffer = 0
  /\ legEntries = <<>>
  /\ legJobs = <<>>
  /\ legCalls = <<>>
  /\ legArrivals = <<>>

LegInit ==
  /\ legSize \in 1..MaxLegacySize
  /\ legBuffer = 0
  /\ legEntries = <<>>
  /\ legJobs = <<>>
  /\ legCalls = <<>>
  /\ legArrivals = <<>>

\* { size: -1, serialized_packets: [], data_size: 0 }
LegacyFragment == [size |-> -1, serialized_packets |-> {}, data_size |-> 0]

\* serialized_packets.length of a sparse array
PacketsLength(serialized_packets) ==
  IF serialized_packets = {} THEN 0
  ELSE (CHOOSE i \in serialized_packets : \A j \in serialized_packets : j <= i) + 1

\* fragment.size !== -1 && fragment.data_size === (fragment.size * (fragment.size + 1)) / 2
LegacyComplete(fragment) ==
  /\ fragment.size # -1
  /\ 2 * fragment.data_size = fragment.size * (fragment.size + 1)

\* a deserialize that passes over the holes of the array
NeverAHole(strings, i) == FALSE

\* NetworkSerializer.deserialize: str = strings[i] is undefined at a hole,
\* and str.length then throws a TypeError
Hole(strings, i) == i \notin strings

\* NetworkSerializer.deserialize(strings) resumed with the loop at index i:
\* the job ends with the TypeError, or has read strings[i] and is suspended
\* at a yield again, or has left the loop and returned the buffer.
LegacyDeserialize(job, strings) ==
  IF job.i >= PacketsLength(strings) THEN [job EXCEPT !.pc = "callback"]
  ELSE IF Hole(strings, job.i) THEN [job EXCEPT !.pc = "threw"]
  ELSE [job EXCEPT !.i = @ + 1]

\* the listener called with the header and the text of one fragment, up to
\* its return or its first yield
LegacyListener(index) ==
  /\ Len(legArrivals) < MaxLegacyArrivals
  /\ index \in 0..(legSize - 1)
  /\ LET id     == IF legBuffer = 0 THEN Len(legEntries) + 1 ELSE legBuffer
         old    == IF legBuffer = 0 THEN LegacyFragment ELSE legEntries[id]
         fragment ==
           [size |-> IF index = legSize - 1 THEN index + 1 ELSE old.size,
            serialized_packets |-> old.serialized_packets \cup {index},
            data_size |-> old.data_size + index + 1]
     IN  /\ legEntries' = IF legBuffer = 0 THEN Append(legEntries, fragment)
                          ELSE [legEntries EXCEPT ![id] = fragment]
         /\ legBuffer' = id
         /\ legJobs' = IF LegacyComplete(fragment)
                         THEN Append(legJobs,
                                LegacyDeserialize([entry |-> id, pc |-> "deserialize", i |-> 0],
                                                  fragment.serialized_packets))
                         ELSE legJobs
  /\ legArrivals' = Append(legArrivals, index)
  /\ UNCHANGED <<legSize, legCalls>>

\* a job suspended in NetworkSerializer.deserialize is resumed
LegacyDeserializeStep(j) ==
  /\ j \in DOMAIN legJobs
  /\ legJobs[j].pc = "deserialize"
  /\ legJobs' = [legJobs EXCEPT
                   ![j] = LegacyDeserialize(@, legEntries[@.entry].serialized_packets)]
  /\ UNCHANGED <<legSize, legBuffer, legEntries, legCalls, legArrivals>>

\* serializer.deserialize(stream), callback(value), buffer.delete(guid)
LegacyCallback(j) ==
  /\ j \in DOMAIN legJobs
  /\ legJobs[j].pc = "callback"
  /\ legCalls' = Append(legCalls, legEntries[legJobs[j].entry].serialized_packets)
  /\ legBuffer' = 0
  /\ legJobs' = [legJobs EXCEPT ![j].pc = "done"]
  /\ UNCHANGED <<legSize, legEntries, legArrivals>>

(***************************************************************************)
(* Pure functions applied to inputs (SpecRoute, SpecHex, SpecVarint,       *)
(* SpecOptional): the input drawn by the initial state, the intermediate   *)
(* result (what the first call returned) and the final result.             *)
(***************************************************************************)
VARIABLES
  fnIn,    \* the arguments of the first call
  fnMid,   \* what the first call returned
  fnOut,   \* what the second call returned
  fnPc     \* "idle", "input", "called", "returned"

fnVars == <<fnIn, fnMid, fnOut, fnPc>>

FnIdle ==
  /\ fnIn = <<>>
  /\ fnMid = <<>>
  /\ fnOut = <<>>
  /\ fnPc = "idle"

\* the input is one of inputs, nothing was called yet
FnInit(inputs) ==
  /\ fnIn \in inputs
  /\ fnMid = <<>>
  /\ fnOut = <<>>
  /\ fnPc = "input"

\* the first call returns mid
FnCall(mid) ==
  /\ fnPc = "input"
  /\ fnMid' = mid
  /\ fnPc' = "called"
  /\ UNCHANGED <<fnIn, fnOut>>

\* the second call returns out
FnReturn(out) ==
  /\ fnPc = "called"
  /\ fnOut' = out
  /\ fnPc' = "returned"
  /\ UNCHANGED <<fnIn, fnMid>>

\* the endpoint names and headers routes are built from in SpecRoute: names
\* with ':' ('a:b', ':', 'ipc:chat:send'), the empty name, code units that take two and
\* three varint bytes; indexes that take one and two varint bytes
RouteEndpoints ==
  {<<97>>, <<97, 58, 98>>, <<58>>, <<>>, <<233>>, <<40000, 58>>,
   <<105, 112, 99, 58, 99, 104, 97, 116, 58, 115, 101, 110, 100>>}

RouteHeaders ==
  [guid : {<<>>, GenerateId(1), GenerateId(16777215 * 128 + 10), <<58>>},
   version : {PROTOCOL_VERSION, <<>>},
   index : {0, 1, 127, 128, MaxRouteIndex},
   isFinal : BOOLEAN]

RouteInputs == [endpoint : RouteEndpoints, header : RouteHeaders]

\* MessageEmitter.emit: the id it hands to sendScriptEvent for a fragment
RouteEmit ==
  FnCall(Route(EncodeToHex(StringSerialize(fnIn.endpoint)),
               EncodeToHex(HeaderSerialize(fnIn.header))))

\* MessageListener.handleEvent: the endpoint and the header it reads from
\* event.id
RouteHandle == FnReturn(ParseRoute(fnMid))

\* the byte buffers and the tokens HeaderCodec is applied to in SpecHex
HexBytes == {0, 9, 10, 15, 16, 171, 255}

RECURSIVE SeqsOver(_, _)
SeqsOver(S, n) ==
  IF n = 0 THEN {<<>>}
  ELSE LET shorter == SeqsOver(S, n - 1)
       IN  shorter \cup {Append(t, x) : t \in {u \in shorter : Len(u) = n - 1}, x \in S}

\* '(', ')', '0', 'x', '4', 'A'
TokenChars == {40, 41, 48, 120, 52, 65}

HexInputs ==
  [kind : {"bytes"}, bytes : SeqsOver(HexBytes, MaxHexLen)]
    \cup [kind : {"token"}, hex : SeqsOver(TokenChars, MaxTokenLen)]

\* the buffer HeaderCodec.decodeFromHex returns: a new ByteBuffer, one
\* writeByte per pair of the content, resetRead; threw says whether an error
\* left the generator
DecodeFromHexBuffer(hex) ==
  [threw |-> FALSE, bytes |-> DecodeFromHex(hex),
   writePos |-> Len(DecodeFromHex(hex)), readPos |-> 0]

\* encodeToHex(buffer) for a buffer holding the input bytes
HexEncode ==
  /\ fnIn.kind = "bytes"
  /\ FnCall(EncodeToHex(fnIn.bytes))

\* decodeFromHex of the token encodeToHex returned
HexDecode ==
  /\ fnIn.kind = "bytes"
  /\ FnReturn(DecodeFromHexBuffer(fnMid))

\* decodeFromHex of an input token
TokenDecode ==
  /\ fnIn.kind = "token"
  /\ FnCall(DecodeFromHexBuffer(fnIn.hex))

\* events that no emit of this program sent, raised by the host in
\* SpecMalformed.  The endpoint token of 'a' and a header token are taken
\* whole, without their '(0x' prefix, without their ')' suffix, or cut short
\* inside the wrapper.
TokenOfA == EncodeToHex(StringSerialize(<<97>>))
TokenOfHeader == EncodedHeaders[Guid(1), 0, TRUE]
NoPrefix(token) == SubSeq(token, 4, Len(token))
NoSuffix(token) == SubSeq(token, 1, Len(token) - 1)

ForeignIds ==
  <<Route(NoPrefix(TokenOfA), TokenOfHeader),
    Route(NoSuffix(TokenOfA), TokenOfHeader),
    Route(TokenOfA, NoPrefix(TokenOfHeader)),
    Route(TokenOfA, NoSuffix(TokenOfHeader)),
    Route(TokenOfA, <<>>),
    Route(TokenOfA, <<40, 48, 120, 48, 49, 41>>)>>

\* the ids of ForeignIds with a token that lacks its wrapper
MalformedIds == 1..5

\* the host raises scriptEventReceive for the foreign event f; initialize
\* starts a handleEvent job for it
RaiseForeign(f) ==
  /\ <<0, f, 1>> \notin DOMAIN jobs
  /\ jobs' = Put(jobs, <<0, f, 1>>,
                 NewJob([id |-> ForeignIds[f], message |-> <<>>]))
  /\ UNCHANGED <<endpoints, arrays, subEndpoint, subArr, fragmentBuffer,
                 emitJobs, sent, deliveries, calls, heads, closureCalled,
                 cleared, regOrder, regAtFirst, goneAtFirst, unheard, subRole,
                 resolved>>

(***************************************************************************)
(* VarUInt32 and VarInt32 on the whole 32-bit range.  A 32-bit word is the *)
(* record of its two 16-bit halves (TLC's integers end at 2^31 - 1); the   *)
(* operators are JavaScript's on the 32-bit integer of a number.           *)
(***************************************************************************)
WordZero == [hi |-> 0, lo |-> 0]
WordOnes == [hi |-> 65535, lo |-> 65535]

RECURSIVE Or16(_, _)
Or16(a, b) ==
  IF a = 0 /\ b = 0 THEN 0
  ELSE (IF a % 2 = 1 \/ b % 2 = 1 THEN 1 ELSE 0) + 2 * Or16(a \div 2, b \div 2)

RECURSIVE Xor16(_, _)
Xor16(a, b) ==
  IF a = 0 /\ b = 0 THEN 0
  ELSE (IF a % 2 # b % 2 THEN 1 ELSE 0) + 2 * Xor16(a \div 2, b \div 2)

\* x | y and x ^ y
WordOr(x, y) == [hi |-> Or16(x.hi, y.hi), lo |-> Or16(x.lo, y.lo)]
WordXor(x, y) == [hi |-> Xor16(x.hi, y.hi), lo |-> Xor16(x.lo, y.lo)]

\* x >>> 7, x >>> 1, x << 1, x >> 31
WordShr7(x) == [hi |-> x.hi \div 128, lo |-> (x.lo \div 128) + (x.hi % 128) * 512]
WordShr1(x) == [hi |-> x.hi \div 2, lo |-> (x.lo \div 2) + (x.hi % 2) * 32768]
WordShl1(x) ==
  [hi |-> (2 * x.hi + x.lo \div 32768) % 65536, lo |-> (2 * x.lo) % 65536]
WordSar31(x) == IF x.hi >= 32768 THEN WordOnes ELSE WordZero

\* (byte & 0x7F) << shift for shift in 0, 7, 14, 21, 28: the bits that leave
\* the 32-bit word are lost
SeptetShifted(byte, shift) ==
  IF shift < 16
    THEN [hi |-> ((byte % 128) * Pow2(shift)) \div 65536,
          lo |-> ((byte % 128) * Pow2(shift)) % 65536]
    ELSE [hi |-> ((byte % 128) * Pow2(shift - 16)) % 65536, lo |-> 0]

\* a loop condition value > 0x80
MoreSeptetsStrict(value) == value.hi > 0 \/ value.lo > 128

\* the loop condition of serialize: value >= 0x80
MoreSeptets(value) == value.hi > 0 \/ value.lo >= 128

\* VarUInt32Serializer.serialize for the word value >>> 0
RECURSIVE VarUInt32SerializeWord(_)
VarUInt32SerializeWord(value) ==
  IF MoreSeptets(value)
    THEN <<(value.lo % 128) + 128>> \o VarUInt32SerializeWord(WordShr7(value))
    ELSE <<value.lo % 256>>

\* VarUInt32Serializer.deserialize: the loop from iteration i; the value
\* returned is value >>> 0
RECURSIVE VarUInt32LoopWord(_, _, _, _, _)
VarUInt32LoopWord(bytes, pos, i, value, shift) ==
  IF i = 5 THEN [ok |-> TRUE, value |-> value, pos |-> pos]
  ELSE IF Len(bytes) - pos <= 0 THEN [ok |-> FALSE, value |-> WordZero, pos |-> pos]
  ELSE LET byte == bytes[pos + 1]
           v == WordOr(value, SeptetShifted(byte, shift))
       IN  IF byte < 128 THEN [ok |-> TRUE, value |-> v, pos |-> pos + 1]
           ELSE VarUInt32LoopWord(bytes, pos + 1, i + 1, v, shift + 7)

VarUInt32DeserializeWord(bytes) == VarUInt32LoopWord(bytes, 0, 0, WordZero, 0)

\* VarInt32Serializer.serialize: zigzag = (value << 1) ^ (value >> 31)
ZigZagWord(value) == WordXor(WordShl1(value), WordSar31(value))

VarInt32SerializeWord(value) == VarUInt32SerializeWord(ZigZagWord(value))

\* VarInt32Serializer.deserialize: (zigzag >>> 1) ^ -(zigzag & 1)
VarInt32DeserializeWord(bytes) ==
  LET zigzag == VarUInt32DeserializeWord(bytes)
  IN  IF ~zigzag.ok THEN zigzag
      ELSE [zigzag EXCEPT !.value =
              WordXor(WordShr1(@), IF @.lo % 2 = 1 THEN WordOnes ELSE WordZero)]

\* the words SpecVarint serializes, as unsigned and as signed values: the
\* halves sit on both sides of every 7-bit boundary and of the sign bit
WordHalvesHi == {0, 1, 31, 32, 4095, 4096, 32767, 32768, 65535 - MaxWordGap, 65535}
WordHalvesLo == {0, 1, 127, 128, 16383, 16384, 65535 - MaxWordGap, 65535}

VarintInputs ==
  [kind : {"unsigned", "signed"},
   word : [hi : WordHalvesHi, lo : WordHalvesLo]]

\* serialize(value, buffer): the bytes written (and, as history, the word
\* handed to VarUInt32)
VarintSerialize ==
  FnCall(IF fnIn.kind = "unsigned"
           THEN [bytes |-> VarUInt32SerializeWord(fnIn.word), zigzag |-> fnIn.word]
           ELSE [bytes |-> VarInt32SerializeWord(fnIn.word),
                 zigzag |-> ZigZagWord(fnIn.word)])

\* deserialize(buffer) on the bytes written
VarintDeserialize ==
  FnReturn(IF fnIn.kind = "unsigned" THEN VarUInt32DeserializeWord(fnMid.bytes)
           ELSE VarInt32DeserializeWord(fnMid.bytes))

(***************************************************************************)
(* OptionalSerializer.  A value handed to it is undefined, null or a value *)
(* of the child's type: [is |-> "undefined"], [is |-> "null"] or           *)
(* [is |-> "value", value |-> v].                                          *)
(***************************************************************************)
UndefinedValue == [is |-> "undefined"]
NullValue == [is |-> "null"]
ValueOf(v) == [is |-> "value", value |-> v]

\* OptionalSerializer.serialize: the bytes written
OptionalSerialize(serializer, value) ==
  LET isDefined == value.is # "undefined" /\ value.is # "null"
  IN  BooleanSerialize(isDefined)
        \o (IF isDefined THEN Serialize(serializer, value.value) ELSE <<>>)

\* a deserialize that takes only the byte 1 for a defined value
OptionalDeserializeOnlyOne(serializer, bytes, pos) ==
  LET isDefined == BooleanDeserialize(bytes, pos)
  IN  IF ~isDefined.ok THEN [isDefined EXCEPT !.value = UndefinedValue]
      ELSE IF bytes[pos + 1] = 1
        THEN LET child == Deserialize(serializer, bytes, isDefined.pos)
             IN  [child EXCEPT !.value = IF child.ok THEN ValueOf(@)
                                         ELSE UndefinedValue]
        ELSE [isDefined EXCEPT !.value = UndefinedValue]

\* OptionalSerializer.deserialize from the read cursor pos
OptionalDeserialize(serializer, bytes, pos) ==
  LET isDefined == BooleanDeserialize(bytes, pos)
  IN  IF ~isDefined.ok THEN [isDefined EXCEPT !.value = UndefinedValue]
      ELSE IF isDefined.value
        THEN LET child == Deserialize(serializer, bytes, isDefined.pos)
             IN  [child EXCEPT !.value = IF child.ok THEN ValueOf(@)
                                         ELSE UndefinedValue]
        ELSE [isDefined EXCEPT !.value = UndefinedValue]

\* the child serializers SpecOptional wraps
OptionalChildren == {BooleanS, VarUInt32S, StringS, ArrayS(BooleanS)}

\* what SpecOptional starts from: a child serializer, a value for the
\* optional, the byte the writing peer uses for "defined" (this code writes
\* 1) and the bytes that follow the optional in the buffer that is read
OptionalInputs ==
  UNION {[serializer : {c},
          value : {UndefinedValue, NullValue} \cup {ValueOf(v) : v \in ValuesOf(c)},
          flag : {1, 2, 255},
          rest : SeqsUpTo({5}, MaxOptionalRest)] : c \in OptionalChildren}

\* the buffer deserialize reads: the optional as written, with the writer's
\* byte for "defined", then the rest
OptionalBuffer(input, bytes) ==
  (IF bytes[1] = 0 THEN <<0>> ELSE <<input.flag>>) \o Tail(bytes) \o input.rest

\* serialize(value, buffer) into a fresh buffer
OptionalWrite == FnCall(OptionalSerialize(fnIn.serializer, fnIn.value))

\* deserialize(buffer)
OptionalRead ==
  FnReturn(OptionalDeserialize(fnIn.serializer, OptionalBuffer(fnIn, fnMid), 0))

\* the variables the messaging specifications leave alone
pureVars == <<peVars, serVars, bbVars, legVars, fnVars>>

vars == <<peVars, msgVars, serVars, bbVars, legVars, fnVars>>

Init == PEIdle /\ SerIdle /\ BBIdle /\ MsgInit /\ LegIdle /\ FnIdle

Next ==
  \/ \E s \in Subs, e \in Endpoints : Register(s, e, "listen") /\ UNCHANGED pureVars
  \/ \E s \in Subs : Unregister(s) /\ UNCHANGED pureVars
  \/ ClearAll /\ UNCHANGED pureVars
  \/ \E m \in Msgs, e \in Endpoints, v \in Values :
       EmitStart(m, e, v) /\ UNCHANGED pureVars
  \/ \E m \in Msgs : EmitSend(m) /\ UNCHANGED pureVars
  \/ \E ev \in sent : Deliver(ev) /\ UNCHANGED pureVars
  \/ \E k \in DOMAIN jobs : JobLookup(k) /\ UNCHANGED pureVars
  \/ \E k \in DOMAIN jobs : JobDispatch(k) /\ UNCHANGED pureVars
  \/ \E k \in DOMAIN jobs : JobDecodeStep(k) /\ UNCHANGED pureVars
  \/ \E k \in DOMAIN jobs, kind \in Kinds :
       JobDecodeEnd(k, kind) /\ UNCHANGED pureVars

Spec == Init /\ [][Next]_vars

\* one subscriber and messages of up to three fragments
NextOne ==
  \/ \E e \in Endpoints : Register(1, e, "listen") /\ UNCHANGED pureVars
  \/ Unregister(1) /\ UNCHANGED pureVars
  \/ ClearAll /\ UNCHANGED pureVars
  \/ \E m \in Msgs, e \in Endpoints, v \in AllValues :
       EmitStart(m, e, v) /\ UNCHANGED pureVars
  \/ \E m \in Msgs : EmitSend(m) /\ UNCHANGED pureVars
  \/ \E ev \in sent : Deliver(ev) /\ UNCHANGED pureVars
  \/ \E k \in DOMAIN jobs : JobLookup(k) /\ UNCHANGED pureVars
  \/ \E k \in DOMAIN jobs : JobDispatch(k) /\ UNCHANGED pureVars
  \/ \E k \in DOMAIN jobs : JobDecodeStep(k) /\ UNCHANGED pureVars
  \/ \E k \in DOMAIN jobs, kind \in Kinds :
       JobDecodeEnd(k, kind) /\ UNCHANGED pureVars

SpecOne == Init /\ [][NextOne]_vars

(***************************************************************************)
(* IPCClient                                                               *)
(***************************************************************************)
\* IPCClient.on(channel, PROTO.String, listener)
On(s, channel) == Register(s, SendEndpoint(channel), "listen")

\* IPCClient.once(channel, PROTO.String, listener)
Once(s, channel) == Register(s, SendEndpoint(channel), "once")

\* IPCClient.handle(channel, PROTO.String, PROTO.String, Handler)
Handle(s, channel) == Register(s, InvokeEndpoint(channel), "handle")

\* the invokes made so far
Invokes == Cardinality({s \in AllSubs : subArr[s] # 0 /\ subRole[s] = "invoke"})

\* IPCClient.invoke(channel, PROTO.String, value, PROTO.String): the emit of
\* the request is handed to system.runJob and the listener for the response
\* is registered
Invoke(s, m, channel, value) ==
  /\ Scheduled(m, InvokeEndpoint(channel), value)
  /\ Listening(s, HandleEndpoint(channel), "invoke")
  /\ UNCHANGED <<fragmentBuffer, sent, deliveries, jobs, calls, heads,
                 closureCalled, cleared, regAtFirst, goneAtFirst, unheard, resolved>>

\* IPCClient.send(channel, PROTO.String, value)
Send(m, channel, value) == EmitStart(m, SendEndpoint(channel), value)

\* the host raises an event that was sent, once
DeliverOnce(ev) ==
  /\ Delivered(<<ev.m, ev.index>>) = 0
  /\ Deliver(ev)

\* the handlers registered so far
Handlers == Cardinality({s \in AllSubs : subArr[s] # 0 /\ subRole[s] = "handle"})

\* one IPCClient with listeners of on and once and messages sent to them,
\* every callback returning and every event raised once
NextSend ==
  \/ \E s \in 1..MaxSendListeners, c \in Channels :
       On(s, c) /\ UNCHANGED pureVars
  \/ \E s \in 1..MaxSendListeners, c \in Channels :
       Once(s, c) /\ UNCHANGED pureVars
  \/ \E m \in 1..MaxSends, c \in Channels, v \in Values :
       Send(m, c, v) /\ UNCHANGED pureVars
  \/ \E m \in AllMsgs : EmitSend(m) /\ UNCHANGED pureVars
  \/ \E ev \in sent : DeliverOnce(ev) /\ UNCHANGED pureVars
  \/ \E k \in DOMAIN jobs : JobLookup(k) /\ UNCHANGED pureVars
  \/ \E k \in DOMAIN jobs : JobDispatch(k) /\ UNCHANGED pureVars
  \/ \E k \in DOMAIN jobs : JobDecodeStep(k) /\ UNCHANGED pureVars
  \/ \E k \in DOMAIN jobs : JobDecodeEnd(k, "returns") /\ UNCHANGED pureVars

SpecSend == Init /\ [][NextSend]_vars

\* one IPCClient with handlers and invokes, every handler returning and every
\* event raised once
NextInvoke ==
  \/ \E s \in AllSubs, c \in Channels :
       Handlers < MaxHandlers /\ Handle(s, c) /\ UNCHANGED pureVars
  \/ \E s \in AllSubs, m \in AllMsgs, c \in Channels, v \in Requests :
       Invokes < MaxInvokes /\ Invoke(s, m, c, v) /\ UNCHANGED pureVars
  \/ \E m \in AllMsgs : EmitSend(m) /\ UNCHANGED pureVars
  \/ \E ev \in sent : DeliverOnce(ev) /\ UNCHANGED pureVars
  \/ \E k \in DOMAIN jobs : JobLookup(k) /\ UNCHANGED pureVars
  \/ \E k \in DOMAIN jobs : JobDispatch(k) /\ UNCHANGED pureVars
  \/ \E k \in DOMAIN jobs : JobDecodeStep(k) /\ UNCHANGED pureVars
  \/ \E k \in DOMAIN jobs : JobDecodeEnd(k, "returns") /\ UNCHANGED pureVars
  \/ \E k \in DOMAIN jobs : JobEmitSend(k) /\ UNCHANGED pureVars

SpecInvoke == Init /\ [][NextInvoke]_vars

\* the requests invoke sent so far
Invoked ==
  {emitJobs[m].value :
     m \in {n \in AllMsgs : emitJobs[n].pc # "idle" /\ emitJobs[n].owner = 0}}

\* one IPCClient with one handler and invokes of different values that are
\* outstanding together ('A' is sent first), every event raised once
NextInvokeTwo ==
  \/ \E s \in AllSubs, c \in Channels :
       Handlers < 1 /\ Handle(s, c) /\ UNCHANGED pureVars
  \/ \E s \in AllSubs, m \in AllMsgs, c \in Channels, v \in PairRequests :
       /\ Invokes < MaxPairInvokes
       /\ v \notin Invoked
       /\ IF Invokes = 0 THEN v = <<65>> ELSE TRUE
       /\ Invoke(s, m, c, v) /\ UNCHANGED pureVars
  \/ \E m \in AllMsgs : EmitSend(m) /\ UNCHANGED pureVars
  \/ \E ev \in sent : DeliverOnce(ev) /\ UNCHANGED pureVars
  \/ \E k \in DOMAIN jobs : JobLookup(k) /\ UNCHANGED pureVars
  \/ \E k \in DOMAIN jobs : JobDispatch(k) /\ UNCHANGED pureVars
  \/ \E k \in DOMAIN jobs : JobDecodeStep(k) /\ UNCHANGED pureVars
  \/ \E k \in DOMAIN jobs : JobDecodeEnd(k, "returns") /\ UNCHANGED pureVars
  \/ \E k \in DOMAIN jobs : JobEmitSend(k) /\ UNCHANGED pureVars

SpecInvokeTwo == Init /\ [][NextInvokeTwo]_vars

\* emit jobs alone, interleaved at their suspension points
NextEmit ==
  \/ \E m \in 1..MaxEmits, e \in Endpoints, v \in AllValues :
       EmitStart(m, e, v) /\ UNCHANGED pureVars
  \/ \E m \in AllMsgs : EmitSend(m) /\ UNCHANGED pureVars

SpecEmit == Init /\ [][NextEmit]_vars

\* one listener given PROTO.Void and messages emitted with PROTO.Void or
\* with PROTO.String, every event raised once
NextVoid ==
  \/ \E e \in Endpoints : Register(1, e, "void") /\ UNCHANGED pureVars
  \/ \E m \in 1..MaxVoidMsgs, e \in Endpoints, v \in {Undefined, <<65>>} :
       EmitStart(m, e, v) /\ UNCHANGED pureVars
  \/ \E m \in AllMsgs : EmitSend(m) /\ UNCHANGED pureVars
  \/ \E ev \in sent : DeliverOnce(ev) /\ UNCHANGED pureVars
  \/ \E k \in DOMAIN jobs : JobLookup(k) /\ UNCHANGED pureVars
  \/ \E k \in DOMAIN jobs : JobDispatch(k) /\ UNCHANGED pureVars
  \/ \E k \in DOMAIN jobs, kind \in Kinds :
       JobDecodeEnd(k, kind) /\ UNCHANGED pureVars

SpecVoid == Init /\ [][NextVoid]_vars

InitPE == PEInit /\ SerIdle /\ BBIdle /\ MsgInit /\ LegIdle /\ FnIdle
NextPE ==
  \/ PEEncode /\ UNCHANGED <<msgVars, serVars, bbVars, legVars, fnVars>>
  \/ PEDecode /\ UNCHANGED <<msgVars, serVars, bbVars, legVars, fnVars>>
SpecPE == InitPE /\ [][NextPE]_vars

InitSer == PEIdle /\ SerInit /\ BBIdle /\ MsgInit /\ LegIdle /\ FnIdle
NextSer ==
  \/ SerSerialize /\ UNCHANGED <<peVars, msgVars, bbVars, legVars, fnVars>>
  \/ \E reader \in ReadersOf(serSchema), cut \in 0..MaxCut :
       SerDeserialize(reader, cut) /\ UNCHANGED <<peVars, msgVars, bbVars, legVars, fnVars>>
SpecSer == InitSer /\ [][NextSer]_vars

InitBB == PEIdle /\ SerIdle /\ BBInit /\ MsgInit /\ LegIdle /\ FnIdle
NextBB ==
  \/ \E size \in 0..MaxSize :
       BBAllocate(size) /\ UNCHANGED <<peVars, msgVars, serVars, legVars, fnVars>>
  \/ \E size \in 0..MaxSize :
       BBAdvance(size) /\ UNCHANGED <<peVars, msgVars, serVars, legVars, fnVars>>
  \/ \E value \in {7, 263} :
       BBWriteByte(value) /\ UNCHANGED <<peVars, msgVars, serVars, legVars, fnVars>>
  \/ \E data \in SeqsUpTo({1}, MaxSize) :
       BBWriteBytes(data) /\ UNCHANGED <<peVars, msgVars, serVars, legVars, fnVars>>
  \/ BBReadByte /\ UNCHANGED <<peVars, msgVars, serVars, legVars, fnVars>>
  \/ \E length \in 0..MaxSize :
       BBReadBytes(length) /\ UNCHANGED <<peVars, msgVars, serVars, legVars, fnVars>>
  \/ BBResetRead /\ UNCHANGED <<peVars, msgVars, serVars, legVars, fnVars>>
  \/ BBClear /\ UNCHANGED <<peVars, msgVars, serVars, legVars, fnVars>>
SpecBB == InitBB /\ [][NextBB]_vars

InitLegacy == PEIdle /\ SerIdle /\ BBIdle /\ MsgInit /\ LegInit /\ FnIdle
NextLegacy ==
  \/ \E index \in 0..(MaxLegacySize - 1) :
       LegacyListener(index) /\ UNCHANGED <<peVars, msgVars, serVars, bbVars, fnVars>>
  \/ \E j \in 1..MaxLegacyArrivals :
       LegacyDeserializeStep(j) /\ UNCHANGED <<peVars, msgVars, serVars, bbVars, fnVars>>
  \/ \E j \in 1..MaxLegacyArrivals :
       LegacyCallback(j) /\ UNCHANGED <<peVars, msgVars, serVars, bbVars, fnVars>>
SpecLegacy == InitLegacy /\ [][NextLegacy]_vars

\* SpecFair: one subscriber that registers and stays, then messages for the
\* deserializer it was given; every event sent is raised once.  system.runJob
\* resumes every generator it was given again and again until it ends, and
\* the host raises every event that was sent.
MaxFairIndex ==
  CHOOSE n \in 0..MaxIndex : /\ \E v \in Values : Len(FragmentsOf[v]) = n + 1
                            /\ \A v \in Values : Len(FragmentsOf[v]) <= n + 1

FairJobKeys == {<<m, i, 1>> : m \in 1..MaxFairMsgs, i \in 0..MaxFairIndex}

\* system.runJob resumes the emit generator of message m
RunEmit(m) == EmitSend(m) /\ UNCHANGED pureVars

\* the host raises the event of fragment i of message m
Raise(m, i) ==
  \E ev \in sent : ev.m = m /\ ev.index = i /\ DeliverOnce(ev) /\ UNCHANGED pureVars

\* system.runJob resumes the handleEvent generator k
RunJob(k) ==
  /\ k \in DOMAIN jobs
  /\ \/ JobLookup(k) /\ UNCHANGED pureVars
     \/ JobDispatch(k) /\ UNCHANGED pureVars
     \/ JobDecodeStep(k) /\ UNCHANGED pureVars
     \/ \E kind \in Kinds : JobDecodeEnd(k, kind) /\ UNCHANGED pureVars

NextFair ==
  \/ \E e \in Endpoints, role \in {"listen", "void"} :
       Register(1, e, role) /\ UNCHANGED pureVars
  \/ \E m \in 1..MaxFairMsgs, e \in Endpoints, v \in Values \cup {Undefined} :
       /\ subArr[1] # 0
       /\ (subRole[1] = "void") = (v = Undefined)
       /\ EmitStart(m, e, v)
       /\ UNCHANGED pureVars
  \/ \E m \in 1..MaxFairMsgs : RunEmit(m)
  \/ \E m \in 1..MaxFairMsgs, i \in 0..MaxFairIndex : Raise(m, i)
  \/ \E k \in FairJobKeys : RunJob(k)

Fairness ==
  /\ \A m \in 1..MaxFairMsgs : WF_vars(RunEmit(m))
  /\ \A m \in 1..MaxFairMsgs, i \in 0..MaxFairIndex : WF_vars(Raise(m, i))
  /\ \A k \in FairJobKeys : WF_vars(RunJob(k))

SpecFair == Init /\ [][NextFair]_vars /\ Fairness

NextMalformed ==
  \/ \E e \in Endpoints : Register(1, e, "listen") /\ UNCHANGED pureVars
  \/ \E f \in DOMAIN ForeignIds : RaiseForeign(f) /\ UNCHANGED pureVars
  \/ \E k \in DOMAIN jobs : JobLookup(k) /\ UNCHANGED pureVars
  \/ \E k \in DOMAIN jobs : JobDispatch(k) /\ UNCHANGED pureVars
SpecMalformed == Init /\ [][NextMalformed]_vars

\* the variables the specifications of pure functions leave alone
progVars == <<peVars, msgVars, serVars, bbVars, legVars>>

FnQuiet == PEIdle /\ SerIdle /\ BBIdle /\ MsgInit /\ LegIdle

InitRoute == FnQuiet /\ FnInit(RouteInputs)
NextRoute ==
  \/ RouteEmit /\ UNCHANGED progVars
  \/ RouteHandle /\ UNCHANGED progVars
SpecRoute == InitRoute /\ [][NextRoute]_vars

InitHex == FnQuiet /\ FnInit(HexInputs)
NextHex ==
  \/ HexEncode /\ UNCHANGED progVars
  \/ HexDecode /\ UNCHANGED progVars
  \/ TokenDecode /\ UNCHANGED progVars
SpecHex == InitHex /\ [][NextHex]_vars

InitVarint == FnQuiet /\ FnInit(VarintInputs)
NextVarint ==
  \/ VarintSerialize /\ UNCHANGED progVars
  \/ VarintDeserialize /\ UNCHANGED progVars
SpecVarint == InitVarint /\ [][NextVarint]_vars

InitOptional == FnQuiet /\ FnInit(OptionalInputs)
NextOptional ==
  \/ OptionalWrite /\ UNCHANGED progVars
  \/ OptionalRead /\ UNCHANGED progVars
SpecOptional == InitOptional /\ [][NextOptional]_vars

(***************************************************************************)
(* Claims about PacketEncoder (checked under SpecPE).                      *)
(***************************************************************************)
\* the accumulated cost of a fragment, counted from its text: 2 per
\* hexadecimal pair, 2 per raw character <= 0x7FF, 3 per raw character above
RECURSIVE FragmentCost(_, _)
FragmentCost(fragment, j) ==
  IF j > Len(fragment) THEN 0
  ELSE IF fragment[j] <= 255 THEN 2 + FragmentCost(fragment, j + 2)
  ELSE IF fragment[j] <= 2047 THEN 2 + FragmentCost(fragment, j + 1)
  ELSE 3 + FragmentCost(fragment, j + 1)

\* C4: decode(encode(buffer, budget)) is exactly the original byte sequence,
\* for buffers of even and of odd length and every budget >= 1.
C4_RoundTripExact ==
  pePc = "decoded" => peDecoded = peBuffer

C6_EmptyInput ==
  /\ (pePc # "input" /\ peBuffer = <<>>) => peFragments = << <<>> >>
  /\ (pePc = "decoded" /\ peFragments = << <<>> >>) => peDecoded = <<>>

\* C6 witness: the empty buffer was encoded and its fragment list decoded.
C6_Witness ==
  /\ pePc = "decoded"
  /\ peBuffer = <<>>
  /\ peFragments = << <<>> >>
  /\ peDecoded = <<>>

(***************************************************************************)
(* Claims about reassembly (checked under SpecOne), the registry and        *)
(* dispatch (checked under Spec).                                          *)
(***************************************************************************)
\* the number of fragments emit split message m into
FragmentCount(m) == Len(emitJobs[m].fragments)

\* how often the listener of s was called with fragment i of message m
HeadCount(s, m, i) ==
  IF i \in DOMAIN heads[s][m] THEN heads[s][m][i] ELSE 0

\* no handleEvent job of message m is still running
AllDone(m) == \A k \in DOMAIN jobs : k[1] = m => jobs[k].pc = "done"

\* every fragment of message m was sent and raised exactly once
DeliveredOnce(m) ==
  /\ emitJobs[m].pc = "done"
  /\ \A i \in 0..(FragmentCount(m) - 1) : Delivered(<<m, i>>) = 1

\* what getListeners returns for an endpoint, as a list
ListenersOf(e) ==
  IF GetListeners(e) = 0 THEN <<>> ELSE arrays[GetListeners(e)]

\* C1: when each of the N fragments of a message reaches the listener of a
\* subscriber at most once, in any order, the callback is called at most
\* once, only when all N have arrived, and with the emitted value; once all N
\* have arrived exactly once and the jobs ended it was called exactly once.
C1_ReassemblyAnyOrder ==
  \A s \in Subs, m \in Msgs :
    (/\ emitJobs[m].pc # "idle"
     /\ \A i \in 0..(FragmentCount(m) - 1) : HeadCount(s, m, i) <= 1)
    => /\ Len(calls[s][m]) <= 1
       /\ calls[s][m] # <<>> =>
            /\ \A i \in 0..(FragmentCount(m) - 1) : HeadCount(s, m, i) = 1
            /\ calls[s][m][1].value = emitJobs[m].value
       /\ (/\ \A i \in 0..(FragmentCount(m) - 1) : HeadCount(s, m, i) = 1
           /\ AllDone(m))
          => Len(calls[s][m]) = 1

\* C1 witness: a message of three fragments whose final fragment arrived
\* before fragment 1 (as in the arrival order 2, 0, 1), every fragment once,
\* and the callback was called once, with the emitted value, during the
\* dispatch of fragment 1.
C1_Witness ==
  \E s \in Subs, m \in Msgs :
    /\ FragmentCount(m) = 3
    /\ \A i \in 0..2 : HeadCount(s, m, i) = 1
    /\ calls[s][m] = <<[value |-> emitJobs[m].value, index |-> 1]>>

\* C2: a callback is never called for a message while some index
\* 0..N-1 of it, the final fragment N-1 included, has not reached the
\* subscriber's listener.
C2_NoDispatchOnPartial ==
  \A s \in Subs, m \in Msgs :
    calls[s][m] # <<>> =>
      \A i \in 0..(FragmentCount(m) - 1) : HeadCount(s, m, i) >= 1

\* C2 witness: fragment 0 and the final fragment of a message of three
\* fragments reached a listener, fragment 1 did not, the jobs ended and no
\* callback was called.
C2_Witness ==
  \E s \in Subs, m \in Msgs :
    /\ FragmentCount(m) = 3
    /\ HeadCount(s, m, 0) >= 1
    /\ HeadCount(s, m, 1) = 0
    /\ HeadCount(s, m, 2) >= 1
    /\ AllDone(m)
    /\ calls[s][m] = <<>>

\* C3: whatever fragments of a message are delivered more than once, the
\* callback of a subscriber is called at most once for that message.
C3_OnceDespiteDuplicates ==
  \A s \in Subs, m \in Msgs : Len(calls[s][m]) <= 1

\* C7: for two subscribers registered together on one endpoint (they share
\* its listener list): when every fragment of a message was raised exactly
\* once and its jobs ended, each of them that was registered on the message's
\* endpoint when its first fragment was raised and still is was called exactly
\* once, and none whose closure had been called by then was called.
C7_FanOut ==
  \A m \in Msgs :
    (DeliveredOnce(m) /\ AllDone(m)) =>
      \A s \in Subs :
        (\E t \in Subs \ {s} : subArr[t] # 0 /\ subArr[t] = subArr[s]) =>
          /\ (s \in regAtFirst[m] /\ Registered(s)) => Len(calls[s][m]) = 1
          /\ s \in goneAtFirst[m] => calls[s][m] = <<>>

\* C8: for every endpoint, getListeners returns exactly the subscribers that
\* registered on it, whose closure was not called and that were not cleared,
\* in registration order.
C8_ClosureRemovesOnlyItsOwn ==
  \A e \in Endpoints :
    LET Stays(s) == Registered(s) /\ subEndpoint[s] = e
    IN  ListenersOf(e) = SelectSeq(regOrder, Stays)

\* C9: a dispatch in which a subscriber raised has invoked every subscriber
\* that is in the endpoint's list when the dispatch ends.
C9_RaiseDoesNotStarve ==
  \A k \in DOMAIN jobs :
    (jobs[k].pc = "done" /\ jobs[k].errors # <<>>) => jobs[k].skipped = {}

\* C10: a dispatch in which a subscriber raised ends by raising.
C10_FailuresRaisedAgain ==
  \A k \in DOMAIN jobs :
    (jobs[k].pc = "done" /\ jobs[k].errors # <<>>) => jobs[k].outcome = "threw"

(***************************************************************************)
(* Claims about MessageEmitter.emit (checked under SpecEmit).              *)
(***************************************************************************)
\* the fragments PacketEncoder.encode returns for the payload of message m
EmitFragments(m) ==
  Encode(StringSerialize(emitJobs[m].value), MAX_FRAGMENT_SIZE)

\* C11: the transport calls of one emit are one per fragment of
\* PacketEncoder.encode, in index order 0..N-1: call number k carries fragment
\* k-1 and a header with index k-1, every call carries the same guid and the
\* same encoded endpoint (the emit's endpoint), isFinal is true on index N-1
\* and false on every other index, and an emit that ended made N calls; other
\* emit jobs run between its suspension points.
C11_OneCallPerFragmentInOrder ==
  \A m \in AllMsgs :
    LET e == emitJobs[m]
        N == Len(EmitFragments(m))
    IN  e.pc # "idle" =>
          /\ Len(e.log) <= N
          /\ e.pc = "done" <=> Len(e.log) = N
          /\ \A k \in 1..Len(e.log) :
               LET p == Parsed(e.log[k].id)
                   first == Parsed(e.log[1].id)
               IN  /\ e.log[k].message = EmitFragments(m)[k]
                   /\ p.header.ok
                   /\ p.header.value.index = k - 1
                   /\ p.header.value.isFinal = (k = N)
                   /\ p.header.value.guid = first.header.value.guid
                   /\ p.header.value.guid = Guid(m)
                   /\ SplitRoute(e.log[k].id).encodedEndpoint
                        = SplitRoute(e.log[1].id).encodedEndpoint
                   /\ p.endpoint.ok
                   /\ p.endpoint.value = e.endpoint

\* C11 witness: two emits of several fragments are both between two of their
\* transport calls, the first after two of its three calls.
C11_Witness ==
  /\ emitJobs[1].pc = "sending"
  /\ Len(EmitFragments(1)) = 3
  /\ Len(emitJobs[1].log) = 2
  /\ emitJobs[2].pc = "sending"
  /\ Len(EmitFragments(2)) >= 2
  /\ Len(emitJobs[2].log) = 1

(***************************************************************************)
(* Claims about the serializers (checked under SpecSer).                   *)
(***************************************************************************)
\* w is a value equal to v of the type of serializer s: arrays and tuples
\* element by element in order, objects key by key, maps pair by pair in
\* insertion order, sets member for member
RECURSIVE SameValue(_, _, _)
SameValue(s, v, w) ==
  CASE s.kind = "Array" ->
         /\ Len(w) = Len(v)
         /\ \A i \in 1..Len(v) : SameValue(s.elementSerializer, v[i], w[i])
    [] s.kind = "Tuple" ->
         /\ Len(w) = Len(s.serializers)
         /\ \A i \in 1..Len(s.serializers) :
              SameValue(s.serializers[i], v[i], w[i])
    [] s.kind = "Object" ->
         /\ DOMAIN w = DOMAIN v
         /\ \A i \in 1..Len(s.keys) :
              SameValue(s.schema[s.keys[i]], v[s.keys[i]], w[s.keys[i]])
    [] s.kind = "Map" ->
         /\ Len(w) = Len(v)
         /\ \A i \in 1..Len(v) :
              /\ SameValue(s.keySerializer, v[i][1], w[i][1])
              /\ SameValue(s.valueSerializer, v[i][2], w[i][2])
    [] s.kind = "Set" ->
         /\ Len(w) = Len(v)
         /\ \A i \in 1..Len(v) : \E j \in 1..Len(w) :
              SameValue(s.elementSerializer, v[i], w[j])
         /\ \A j \in 1..Len(w) : \E i \in 1..Len(v) :
              SameValue(s.elementSerializer, v[i], w[j])
    [] OTHER -> w = v

\* C12: for the String, Array, Object, Tuple, Map and Set serializers and
\* every value of their type, deserializing what serialize wrote into a fresh
\* buffer returns an equal value and leaves the read cursor at the end of the
\* bytes written.
C12_RoundTrip ==
  (/\ serPc = "deserialized"
   /\ serSchema.kind \in {"String", "Array", "Object", "Tuple", "Map", "Set"}
   /\ ~HasMissingChild(serReader)
   /\ serCut = 0) =>
    /\ serOut.ok
    /\ SameValue(serSchema, serValue, serOut.value)
    /\ serOut.pos = Len(serBytes)

\* C12 witness: a Map of two pairs was written and read back.
C12_Witness ==
  /\ serPc = "deserialized"
  /\ serSchema.kind = "Map"
  /\ Len(serValue) = 2
  /\ ~HasMissingChild(serReader)
  /\ serCut = 0
  /\ serOut.ok

\* C13: VarUInt32.serialize writes 1 byte for every value 0..127 and 2 bytes
\* for every value 128..16383, the bit 0x80 set on every byte but the last;
\* VarInt32.serialize(-1) writes the single byte VarUInt32.serialize(1)
\* writes.
C13_VarintBoundaries ==
  serPc # "input" =>
    /\ serSchema.kind = "VarUInt32" =>
         /\ serValue <= 127 => Len(serBytes) = 1
         /\ (serValue >= 128 /\ serValue <= 16383) => Len(serBytes) = 2
         /\ \A i \in 1..Len(serBytes) :
              (serBytes[i] >= 128) = (i < Len(serBytes))
    /\ (serSchema.kind = "VarInt32" /\ serValue = -1) =>
         /\ Len(serBytes) = 1
         /\ serBytes = VarUInt32Serialize(1)

\* C13 witness: 128, the smallest number of two bytes, was serialized.
C13_Witness ==
  /\ serPc = "serialized"
  /\ serSchema.kind = "VarUInt32"
  /\ serValue = 128
  /\ Len(serBytes) = 2

\* C16: deserializing with a composite serializer one of whose child
\* serializers is missing, or from a buffer that lacks bytes at its end,
\* raises an error.
C16_FailsLoudly ==
  (serPc = "deserialized" /\ (HasMissingChild(serReader) \/ serCut > 0)) =>
    ~serOut.ok

(***************************************************************************)
(* Claims about ByteBuffer (checked under SpecBB).                         *)
(***************************************************************************)
\* C14: after any sequence of ByteBuffer calls, 0 <= readPosition <=
\* writePosition <= capacity of the byte array.
C14_CursorOrder ==
  /\ 0 <= bbReadPos
  /\ bbReadPos <= bbWritePos
  /\ bbWritePos <= Len(bbBytes)

\* C14 witness: the array has grown and is full, everything written has
\* been read, and the last call was an advance that failed.
C14_Witness ==
  /\ Len(bbBytes) > MaxInitialSize
  /\ bbWritePos = Len(bbBytes)
  /\ bbReadPos = bbWritePos
  /\ bbLast.op = "advance"
  /\ bbLast.threw

\* C15: a call advance(n) with n greater than writePosition - readPosition
\* throws and leaves the two cursors and the bytes as they were; with n at
\* most that count it returns the old read position and moves the read
\* cursor forward by n.
C15_AdvanceUnderflow ==
  [][bbLast'.op = "advance" =>
       IF bbLast'.size > bbWritePos - bbReadPos
         THEN /\ bbLast'.threw
              /\ bbReadPos' = bbReadPos
              /\ bbWritePos' = bbWritePos
              /\ bbBytes' = bbBytes
         ELSE /\ ~bbLast'.threw
              /\ bbLast'.returned = bbReadPos
              /\ bbReadPos' = bbReadPos + bbLast'.size]_vars

\* C15 witness: an advance for more bytes than are left to read has thrown,
\* with bytes written and some of them read.
C15_Witness ==
  /\ bbLast.op = "advance"
  /\ bbLast.threw
  /\ bbReadPos > 0
  /\ bbReadPos < bbWritePos
  /\ bbLast.size > bbWritePos - bbReadPos

(***************************************************************************)
(* IPCClient.once (checked under SpecSend).                                *)
(***************************************************************************)
\* the messages the callback of subscriber s was called for
CalledFor(s) == {m \in AllMsgs : calls[s][m] # <<>>}

\* C17: the callback of a listener registered with once is called for at
\* most one message, whatever number of messages is sent to the channel and
\* however their receive jobs interleave.
C17_OnceAtMostOneMessage ==
  \A s \in AllSubs :
    subRole[s] = "once" => Cardinality(CalledFor(s)) <= 1

(***************************************************************************)
(* IPCClient.invoke and IPCClient.handle (checked under SpecInvoke).       *)
(***************************************************************************)
\* message m is a request: invoke emitted it
Request(m) == emitJobs[m].pc # "idle" /\ emitJobs[m].owner = 0

\* the messages the listener of handler h emitted
Responses(h) == {m \in AllMsgs : emitJobs[m].owner = h}

\* nothing is left to run: every emit ended, every event sent was raised and
\* every handleEvent job ended
Quiet ==
  /\ \A m \in AllMsgs : emitJobs[m].pc \in {"idle", "done"}
  /\ \A ev \in sent : Delivered(<<ev.m, ev.index>>) >= 1
  /\ \A k \in DOMAIN jobs : jobs[k].pc = "done"

\* handler h is the only handler and was registered when request m was raised
OnlyHandler(h, m) ==
  /\ Handlers = 1
  /\ subRole[h] = "handle"
  /\ h \in regAtFirst[m]

\* C18: with one handler registered by handle and one outstanding invoke of
\* value v, the handler is called only with v and at most once, it emits at
\* most one response, on the response endpoint of the channel and carrying
\* what the handler returned, and the promise is resolved only with that
\* value; once nothing is left to run the handler was called exactly once,
\* exactly one response was emitted and the promise is resolved.
C18_InvokeAnswered ==
  \A s \in AllSubs, h \in AllSubs, m \in AllMsgs :
    (/\ Invokes = 1
     /\ subArr[s] # 0 /\ subRole[s] = "invoke"
     /\ Request(m)
     /\ OnlyHandler(h, m))
    => LET v == emitJobs[m].value
       IN  /\ Len(calls[h][m]) <= 1
           /\ \A i \in DOMAIN calls[h][m] : calls[h][m][i].value = v
           /\ Cardinality(Responses(h)) <= 1
           /\ \A r \in Responses(h) :
                /\ emitJobs[r].endpoint = HandleEndpoint(ChannelOf(h))
                /\ emitJobs[r].value = Handler(v)
           /\ Len(resolved[s]) <= 1
           /\ \A i \in DOMAIN resolved[s] : resolved[s][i] = Handler(v)
           /\ Quiet =>
                /\ Len(calls[h][m]) = 1
                /\ Cardinality(Responses(h)) = 1
                /\ \A r \in Responses(h) : emitJobs[r].pc = "done"
                /\ resolved[s] = <<Handler(v)>>

\* C18 witness: invoke of 'A' with a single handler, which was called once
\* and answered 'AA' in one response, and the promise is resolved with 'AA'
C18_Witness ==
  \E s \in AllSubs, h \in AllSubs, m \in AllMsgs :
    /\ Invokes = 1
    /\ subArr[s] # 0 /\ subRole[s] = "invoke"
    /\ Request(m) /\ emitJobs[m].value = <<65>>
    /\ OnlyHandler(h, m)
    /\ Quiet
    /\ Len(calls[h][m]) = 1
    /\ Cardinality(Responses(h)) = 1
    /\ resolved[s] = << <<65, 65>> >>

\* the messages emitted as responses by the listeners of handle
AllResponses == {m \in AllMsgs : emitJobs[m].owner # 0}

\* C19: when two handlers are registered on the channel of a request, only
\* the one registered last is called with the request, and at most one
\* response is emitted for the request.
C19_LastHandlerOverrides ==
  \A m \in AllMsgs, h1 \in AllSubs, h2 \in AllSubs :
    (/\ Request(m)
     /\ subRole[h1] = "handle" /\ subRole[h2] = "handle"
     /\ h1 \in regAtFirst[m] /\ h2 \in regAtFirst[m]
     /\ IndexOf(regOrder, h1) < IndexOf(regOrder, h2))
    => /\ calls[h1][m] = <<>>
       /\ Cardinality(AllResponses) <= 1

(***************************************************************************)
(* Reassembly of several messages at one listener (checked under SpecSend).*)
(***************************************************************************)
\* the reassembly entry subscriber s holds for guid, if any
EntryOf(s, guid) ==
  IF guid \in DOMAIN fragmentBuffer[s] THEN <<fragmentBuffer[s][guid]>> ELSE <<>>

\* the guid of the fragment a running handleEvent job hands to its listeners
JobGuid(job) ==
  IF job.pc = "header"
    THEN IF Parsed(job.id).header.ok THEN Parsed(job.id).header.value.guid
         ELSE <<>>
    ELSE job.header.guid

\* every fragment of message m reached the listener of s exactly once
AllHeadsOnce(s, m) ==
  \A i \in 0..(FragmentCount(m) - 1) : HeadCount(s, m, i) = 1

\* what delivering message m alone gives at a listener registered with on:
\* at most one dispatch, with the emitted value and only when every fragment
\* arrived, and exactly one once they all arrived and the jobs ended
DispatchedAsAlone(s, m) ==
  /\ Len(calls[s][m]) <= 1
  /\ \A i \in DOMAIN calls[s][m] : calls[s][m][i].value = emitJobs[m].value
  /\ calls[s][m] # <<>> => AllHeadsOnce(s, m)
  /\ (AllHeadsOnce(s, m) /\ AllDone(m)) => Len(calls[s][m]) = 1

\* a step changes the entry of a guid only when it is a step of a job whose
\* fragment carries that guid
EntryConfined ==
  \A s \in AllSubs :
    \A guid \in DOMAIN fragmentBuffer[s] \cup DOMAIN fragmentBuffer'[s] :
      EntryOf(s, guid)' # EntryOf(s, guid)
      => \E k \in DOMAIN jobs :
           /\ jobs'[k] # jobs[k]
           /\ JobGuid(jobs[k]) = guid
           /\ MsgOf(guid) = k[1]

\* C20: whatever the interleaving of the fragments of the messages sent to a
\* listener registered with on, each message is dispatched as when it is
\* delivered alone (once, with its own value), and a fragment carrying one
\* guid never changes the reassembly entry of another guid.
C20_IndependentReassembly ==
  /\ [](\A s \in AllSubs, m \in AllMsgs :
          (subArr[s] # 0 /\ subRole[s] = "listen" /\ emitJobs[m].pc # "idle")
          => DispatchedAsAlone(s, m))
  /\ [][EntryConfined]_vars

\* C20 witness: the listener of on holds, at the same time, unfinished
\* entries of two messages of two fragments each, one fragment in each, and
\* the other fragment of both is still to come
C20_Witness ==
  \E s \in AllSubs :
    /\ subRole[s] = "listen"
    /\ \A m \in 1..2 :
         /\ FragmentCount(m) = 2
         /\ Guid(m) \in DOMAIN fragmentBuffer[s]
         /\ Cardinality(fragmentBuffer[s][Guid(m)].received) = 1
         /\ calls[s][m] = <<>>

(***************************************************************************)
(* Unregistering and late registration (checked under SpecOne and Spec).   *)
(***************************************************************************)
\* the step calls the callback of subscriber s
CallbackCalled(s) == calls'[s] # calls[s]

\* C21: once the closure of a subscriber has returned, no step calls its
\* callback on behalf of a fragment that was raised after that, and no step
\* changes its reassembly entries.
C21_UnregisterFreezes ==
  [][\A s \in Subs :
       closureCalled[s] =>
         /\ CallbackCalled(s) =>
              \E k \in DOMAIN jobs : jobs'[k] # jobs[k] /\ s \notin jobs[k].gone
         /\ fragmentBuffer'[s] = fragmentBuffer[s]]_vars

\* some fragment of message m was raised, and every fragment of m raised so
\* far was raised while the endpoint of m had no listener
RaisedUnheard(m) ==
  /\ \E k \in DOMAIN jobs : k[1] = m
  /\ unheard[m]

\* C22: a message whose fragments were all raised while its endpoint had no
\* listener leaves no reassembly entry at any subscriber and is never
\* dispatched to any subscriber, also not to one registered afterwards.
C22_NoListenerNoMessage ==
  \A m \in Msgs :
    RaisedUnheard(m) =>
      \A s \in Subs :
        /\ Guid(m) \notin DOMAIN fragmentBuffer[s]
        /\ calls[s][m] = <<>>

(***************************************************************************)
(* Messages with an empty payload (checked under SpecVoid).                *)
(***************************************************************************)
\* no handleEvent job of message m collected an error of a listener
NoErrors(m) == \A k \in DOMAIN jobs : k[1] = m => jobs[k].errors = <<>>

\* C23: a message emitted with PROTO.Void is one transport call, with index
\* 0 and isFinal true, and once that fragment was raised for a subscriber
\* registered on its endpoint and the job ended, the callback of the
\* subscriber was called once and no error was raised.
C23_EmptyPayload ==
  \A m \in AllMsgs :
    (emitJobs[m].pc = "done" /\ emitJobs[m].value = Undefined) =>
      /\ Len(emitJobs[m].log) = 1
      /\ Parsed(emitJobs[m].log[1].id).header.ok
      /\ Parsed(emitJobs[m].log[1].id).header.value.index = 0
      /\ Parsed(emitJobs[m].log[1].id).header.value.isFinal
      /\ \A s \in AllSubs :
           (/\ s \in regAtFirst[m]
            /\ HeadCount(s, m, 0) = 1
            /\ AllDone(m))
           => /\ Len(calls[s][m]) = 1
              /\ NoErrors(m)

(***************************************************************************)
(* Siblings of a listener that unregisters itself (checked under SpecSend).*)
(***************************************************************************)
\* C24: a dispatch that ended has invoked every subscriber that was
\* registered on the endpoint from before the dispatch began (when the first
\* fragment of the message was raised) until it ended, also when a listener
\* of once earlier in the list unregistered itself during the dispatch.
C24_NoSiblingSkipped ==
  \A k \in DOMAIN jobs :
    jobs[k].pc = "done" => jobs[k].skipped \cap regAtFirst[k[1]] = {}

(***************************************************************************)
(* Two invokes outstanding together (checked under SpecInvokeTwo).         *)
(***************************************************************************)
\* subscriber s is the response listener of an invoke
Invoker(s) == subArr[s] # 0 /\ subRole[s] = "invoke"

\* the request of invoker s: invoke emits its request and registers its
\* listener in one call, so the n-th invoker sent the n-th request
RequestOf(s) ==
  CHOOSE m \in AllMsgs :
    /\ Request(m)
    /\ Cardinality({n \in 1..m : Request(n)})
         = Cardinality({t \in 1..s : Invoker(t)})

\* C25: with two invokes outstanding on one channel, each promise is
\* resolved at most once, and only with what the handler returned for the
\* request of that invoke.
C25_OwnResponse ==
  \A s \in AllSubs :
    Invoker(s) =>
      /\ Len(resolved[s]) <= 1
      /\ \A i \in DOMAIN resolved[s] :
           resolved[s][i] = Handler(emitJobs[RequestOf(s)].value)

(***************************************************************************)
(* The entries a listener retains (checked under SpecVoid, SpecOne, Spec). *)
(***************************************************************************)
\* no handleEvent job is in progress
NoJobRunning == \A k \in DOMAIN jobs : jobs[k].pc = "done"

\* the entry is not complete: the final fragment was not seen, or fewer
\* distinct indices than the expected count
Incomplete(entry) ==
  entry.size = -1 \/ Cardinality(entry.received) < entry.size

\* C26: whenever no receive job is in progress, every entry of every
\* subscriber's map is incomplete.
C26_OnlyIncompleteEntries ==
  NoJobRunning =>
    \A s \in AllSubs :
      \A guid \in DOMAIN fragmentBuffer[s] :
        Incomplete(fragmentBuffer[s][guid])

\* the indices of message m whose fragment reached the listener of s
HeadsSeen(s, m) == {i \in 0..(FragmentCount(m) - 1) : HeadCount(s, m, i) > 0}

\* some but not all fragments of message m reached the listener of s
PartlySeen(s, m) ==
  /\ emitJobs[m].pc # "idle"
  /\ HeadsSeen(s, m) # {}
  /\ HeadsSeen(s, m) # 0..(FragmentCount(m) - 1)

\* a step leaves every incomplete entry in its map, and changes it only
\* when it is a step of a job whose fragment carries the entry's guid, which
\* adds to what was received
IncompleteKept ==
  \A s \in AllSubs :
    \A guid \in DOMAIN fragmentBuffer[s] :
      Incomplete(fragmentBuffer[s][guid]) =>
        /\ guid \in DOMAIN fragmentBuffer'[s]
        /\ fragmentBuffer'[s][guid] # fragmentBuffer[s][guid] =>
             /\ \E k \in DOMAIN jobs :
                  jobs'[k] # jobs[k] /\ JobGuid(jobs[k]) = guid
             /\ fragmentBuffer[s][guid].received
                  \subseteq fragmentBuffer'[s][guid].received

\* C27: an entry that misses a fragment is never removed and no step of
\* anything but a fragment of its own guid changes it (not fragments or the
\* completion of other messages, not unregistering); every message of which
\* a listener got some fragments but not all has its entry retained, so the
\* retained entries are as many as the incomplete messages.
C27_IncompleteRetained ==
  /\ [](\A s \in AllSubs, m \in AllMsgs :
          PartlySeen(s, m) =>
            /\ Guid(m) \in DOMAIN fragmentBuffer[s]
            /\ fragmentBuffer[s][Guid(m)].received = HeadsSeen(s, m)
            /\ Incomplete(fragmentBuffer[s][Guid(m)]))
  /\ [][IncompleteKept]_vars

\* C27 witness: a listener was called for a complete message while it
\* retains the entry of another message that misses a fragment, no job is in
\* progress, and a listener of once on the endpoint has unregistered itself
C27_Witness ==
  \E s \in AllSubs, m \in AllMsgs, n \in AllMsgs :
    /\ subRole[s] = "listen"
    /\ m # n
    /\ calls[s][m] # <<>>
    /\ PartlySeen(s, n)
    /\ Guid(n) \in DOMAIN fragmentBuffer[s]
    /\ NoJobRunning
    /\ \E t \in AllSubs : subRole[t] = "once" /\ closureCalled[t]

(***************************************************************************)
(* Subscribers registered late (checked under Spec).                       *)
(***************************************************************************)
\* no fragment of message m was raised more than once
RaisedAtMostOnce(m) ==
  \A i \in 0..(FragmentCount(m) - 1) : Delivered(<<m, i>>) <= 1

\* no subscriber was unregistered or cleared
NobodyLeft == \A s \in AllSubs : ~closureCalled[s] /\ ~cleared[s]

\* C28: for a message of several fragments, each raised at most once: a
\* subscriber that was not registered on the endpoint when the first
\* fragment was raised never dispatches the message, and, while nobody
\* unregisters, the subscribers that were registered then have dispatched it
\* exactly once when every fragment was raised and the jobs ended.
C28_PrivateReassembly ==
  \A m \in Msgs :
    (/\ emitJobs[m].pc # "idle"
     /\ FragmentCount(m) >= 2
     /\ \E i \in 0..(FragmentCount(m) - 1) : Delivered(<<m, i>>) > 0
     /\ RaisedAtMostOnce(m))
    => \A s \in Subs :
         /\ s \notin regAtFirst[m] => calls[s][m] = <<>>
         /\ (/\ s \in regAtFirst[m]
             /\ NobodyLeft
             /\ DeliveredOnce(m)
             /\ AllDone(m))
            => Len(calls[s][m]) = 1

(***************************************************************************)
(* C29  Legacy listener: the callback only for a whole message             *)
(***************************************************************************)
\* C29: in the legacy listener, which finds an entry complete when the sum
\* of (index + 1) over the fragments delivered equals size*(size+1)/2, every
\* callback is invoked with an entry that holds every index 0..size-1 of the
\* message, also when fragments were delivered more than once: an entry the
\* sum lets through with an index missing makes NetworkSerializer.deserialize
\* throw at the hole before the callback.
C29_LegacyCallbackOnlyWhenWhole ==
  \A c \in DOMAIN legCalls : \A index \in 0..(legSize - 1) : index \in legCalls[c]

\* C29 witness: three fragments; index 0 delivered three times and the final
\* one once, which makes the sum 6 with index 1 missing; index 1 arrived
\* while the job was suspended in deserialize, and the callback was invoked.
C29_Witness ==
  /\ legSize = 3
  /\ legArrivals = <<0, 0, 0, 2, 1>>
  /\ Len(legCalls) = 1

(***************************************************************************)
(* C30  Under fair scheduling the callback is invoked                      *)
(***************************************************************************)
\* the subscriber was registered on the endpoint of message m when its first
\* event was raised (and stays: SpecFair unregisters nobody), and every
\* fragment of m was sent and raised
WhollyDelivered(m) == DeliveredOnce(m) /\ 1 \in regAtFirst[m]

\* nothing is left to wait for: every message wholly delivered to the
\* subscriber was given to its callback, no emit generator is between two
\* iterations and no handleEvent generator is suspended
Settled ==
  /\ \A m \in 1..MaxFairMsgs : WhollyDelivered(m) => calls[1][m] # <<>>
  /\ \A m \in 1..MaxFairMsgs : emitJobs[m].pc # "sending"
  /\ \A k \in DOMAIN jobs : jobs[k].pc = "done"

\* C30: when every fragment of a message was delivered while the subscriber
\* stayed registered on the endpoint, and every job is run fairly, the
\* subscriber's callback is eventually invoked for the message; every emit
\* generator (serialize and encode) and every handleEvent generator (decode
\* and deserialize) that was started reaches its end.  Deliveries, calls and
\* ended generators are never taken back, so "each of them leads to its
\* outcome" is the same as "from some point on nothing is left to wait for".
C30_EventuallyCalled == <>[]Settled

(***************************************************************************)
(* C31  The route string is read back to the endpoint and the header       *)
(***************************************************************************)
\* C31: for every endpoint name (names with ':' included) and every header,
\* handleEvent reads from the id emit built (encodedEndpoint ':'
\* encodedHeader) the same endpoint name and a header with the same guid,
\* version, index and isFinal.
C31_RouteRoundTrip ==
  fnPc = "returned" =>
    /\ fnOut.endpoint.ok
    /\ fnOut.endpoint.value = fnIn.endpoint
    /\ fnOut.header.ok
    /\ fnOut.header.value.guid = fnIn.header.guid
    /\ fnOut.header.value.version = fnIn.header.version
    /\ fnOut.header.value.index = fnIn.header.index
    /\ fnOut.header.value.isFinal = fnIn.header.isFinal

\* C31 witness: the route of 'ipc:chat:send' with a final header of a large
\* index was built and read back.
C31_Witness ==
  /\ fnPc = "returned"
  /\ fnIn.endpoint = <<105, 112, 99, 58, 99, 104, 97, 116, 58, 115, 101, 110, 100>>
  /\ fnIn.header.index = MaxRouteIndex
  /\ fnIn.header.isFinal
  /\ fnIn.header.version = PROTOCOL_VERSION
  /\ fnOut.endpoint.value = fnIn.endpoint

(***************************************************************************)
(* C32  HeaderCodec: the token and its round trip                          *)
(***************************************************************************)
\* a digit 0-9 or A-F
UpperHex(c) == (c >= 48 /\ c <= 57) \/ (c >= 65 /\ c <= 70)

\* C32: for every byte buffer encodeToHex returns '(0x', then exactly two
\* upper-case hexadecimal characters per byte, then ')', and decodeFromHex of
\* that token returns a buffer with exactly the original bytes and the read
\* cursor at 0.
C32_HexRoundTrip ==
  /\ (fnIn.kind = "bytes" /\ fnPc \in {"called", "returned"}) =>
       /\ Len(fnMid) = 4 + 2 * Len(fnIn.bytes)
       /\ SubSeq(fnMid, 1, 3) = <<40, 48, 120>>
       /\ fnMid[Len(fnMid)] = 41
       /\ \A i \in 4..(Len(fnMid) - 1) : UpperHex(fnMid[i])
       /\ \A b \in 1..Len(fnIn.bytes) :
            16 * HexValue(fnMid[2 + 2 * b]) + HexValue(fnMid[3 + 2 * b])
              = fnIn.bytes[b]
  /\ (fnIn.kind = "bytes" /\ fnPc = "returned") =>
       /\ ~fnOut.threw
       /\ fnOut.bytes = fnIn.bytes
       /\ fnOut.writePos = Len(fnIn.bytes)
       /\ fnOut.readPos = 0

\* C32 witness: a buffer of three bytes, among them one below 16 and one
\* with the digits A-F, was encoded and decoded.
C32_Witness ==
  /\ fnIn.kind = "bytes"
  /\ fnPc = "returned"
  /\ fnIn.bytes = <<9, 171, 255>>
  /\ fnMid = <<40, 48, 120, 48, 57, 65, 66, 70, 70, 41>>

(***************************************************************************)
(* C33  HeaderCodec.decodeFromHex of a malformed token                     *)
(***************************************************************************)
\* the token starts with '(0x' and ends with ')'
Wrapped(hex) ==
  /\ Len(hex) >= 3
  /\ SubSeq(hex, 1, 3) = <<40, 48, 120>>
  /\ hex[Len(hex)] = 41

\* C33: decodeFromHex of a token that lacks the '(0x' prefix or the ')'
\* suffix returns an empty buffer (no byte written, read cursor 0) and
\* raises no error.
C33_MalformedTokenEmpty ==
  (fnIn.kind = "token" /\ fnPc = "called" /\ ~Wrapped(fnIn.hex)) =>
    /\ ~fnMid.threw
    /\ fnMid.bytes = <<>>
    /\ fnMid.writePos = 0
    /\ fnMid.readPos = 0

\* C33 witness: '(0x41' (no suffix) and '0x41)' (no prefix) were decoded;
\* the first one is reached here.
C33_Witness ==
  /\ fnIn.kind = "token"
  /\ fnPc = "called"
  /\ fnIn.hex = <<40, 48, 120, 52, 65>>
  /\ fnMid.bytes = <<>>

(***************************************************************************)
(* C34  An event with a malformed token                                    *)
(***************************************************************************)
\* no listener was called, no reassembly entry exists
NothingReceived ==
  \A sub \in AllSubs :
    /\ fragmentBuffer[sub] = EmptyMap
    /\ \A m \in AllMsgs : heads[sub][m] = EmptyMap /\ calls[sub][m] = <<>>

\* C34: an inbound event whose endpoint token or header token lacks its
\* '(0x' ... ')' wrapper vanishes silently: no subscriber is invoked, no
\* reassembly entry is created or changed, and the receive job raises no
\* error.
C34_MalformedVanishes ==
  \A f \in MalformedIds :
    (<<0, f, 1>> \in DOMAIN jobs /\ jobs[<<0, f, 1>>].pc = "done") =>
      /\ jobs[<<0, f, 1>>].outcome = "returned"
      /\ jobs[<<0, f, 1>>].errors = <<>>
      /\ NothingReceived

(***************************************************************************)
(* C35  VarUInt32 and VarInt32 on the whole 32-bit range                   *)
(***************************************************************************)
\* the signed 32-bit value of a word, and the word the zigzag mapping
\* 0, -1, 1, -2, ... -> 0, 1, 2, 3, ... gives for it: 2n for n >= 0 and
\* 2(-n - 1) + 1 for n < 0
SignedOf(word) ==
  IF word.hi >= 32768 THEN (word.hi - 65536) * 65536 + word.lo
  ELSE word.hi * 65536 + word.lo

ZigZagOf(n) ==
  LET half == IF n >= 0 THEN n ELSE -(n + 1)
  IN  [hi |-> half \div 32768,
       lo |-> 2 * (half % 32768) + (IF n >= 0 THEN 0 ELSE 1)]

\* C35: for every unsigned 32-bit value deserialize after serialize of
\* VarUInt32 returns the value and at most 5 bytes were written; for every
\* signed 32-bit value deserialize after serialize of VarInt32 returns the
\* value, and the word handed to VarUInt32 is the zigzag image of the value.
C35_VarintRoundTrip ==
  /\ fnPc \in {"called", "returned"} =>
       /\ Len(fnMid.bytes) \in 1..5
       /\ fnIn.kind = "signed" => fnMid.zigzag = ZigZagOf(SignedOf(fnIn.word))
  /\ fnPc = "returned" =>
       /\ fnOut.ok
       /\ fnOut.value = fnIn.word
       /\ fnOut.pos = Len(fnMid.bytes)

\* C35 witness: 2^32 - 1 was written in five bytes and read back, as the
\* unsigned value and as the signed value -1 (one byte).
C35_Witness ==
  /\ fnPc = "returned"
  /\ fnIn.word = WordOnes
  /\ fnOut.value = WordOnes
  /\ \/ fnIn.kind = "unsigned" /\ fnMid.bytes = <<255, 255, 255, 255, 15>>
     \/ fnIn.kind = "signed" /\ fnMid.bytes = <<1>>

(***************************************************************************)
(* C36  growth of the ByteBuffer                                           *)
(***************************************************************************)
\* the larger of two sizes
Larger(a, b) == IF a > b THEN a ELSE b

\* C36: when allocate, writeByte or writeBytes asks for more room than the
\* capacity has after writePos, the new capacity is the larger of twice the
\* old one and writePos + size; the bytes written before keep their value
\* and offset, readPos is unchanged and writePos advances by the size.
C36_GrowthKeepsBytesAndCursors ==
  [][(/\ bbLast'.op \in {"allocate", "writeByte", "writeBytes"}
      /\ bbWritePos + bbLast'.size > Len(bbBytes))
       => /\ Len(bbBytes') = Larger(2 * Len(bbBytes), bbWritePos + bbLast'.size)
          /\ \A i \in 1..bbWritePos : bbBytes'[i] = bbBytes[i]
          /\ bbReadPos' = bbReadPos
          /\ bbWritePos' = bbWritePos + bbLast'.size]_vars

\* C36 witness: two bytes filled a buffer of capacity 2, one was read, and
\* the third write doubled the capacity to 4 with the two bytes in place and
\* the read cursor where it was.
C36_Witness ==
  /\ bbLast.op = "writeByte"
  /\ bbBytes = <<1, 1, 7, 0>>
  /\ bbWritePos = 3
  /\ bbReadPos = 1

(***************************************************************************)
(* C37  OptionalSerializer                                                 *)
(***************************************************************************)
\* C37: an absent value (undefined or null) is written as the one byte 0, a
\* present one as the byte 1 followed by the child's encoding; deserialize
\* returns undefined for the byte 0 with the read cursor one byte on, and
\* the child's value for any other first byte, read from the byte after it.
C37_OptionalOneByteWhenAbsent ==
  LET absent == fnIn.value.is \in {"undefined", "null"}
  IN  /\ fnPc \in {"called", "returned"} =>
           fnMid = IF absent THEN <<0>>
                   ELSE <<1>> \o Serialize(fnIn.serializer, fnIn.value.value)
      /\ fnPc = "returned" =>
           /\ fnOut.ok
           /\ IF absent
                THEN fnOut.value = UndefinedValue /\ fnOut.pos = 1
                ELSE /\ fnOut.value = fnIn.value
                     /\ fnOut.pos = Len(fnMid)

\* C37 witness: null was written as the byte 0 and read back as undefined
\* from a buffer that goes on after it.
C37_Witness ==
  /\ fnPc = "returned"
  /\ fnIn.value = NullValue
  /\ fnIn.rest # <<>>
  /\ fnMid = <<0>>
  /\ fnOut = [ok |-> TRUE, value |-> UndefinedValue, pos |-> 1]

(***************************************************************************)
(* C38  the keys of EndpointManager                                        *)
(***************************************************************************)
\* no key of the map holds an empty array, and hasListeners agrees with
\* getListeners
NoEmptyList ==
  \A e \in AllEndpoints :
    /\ GetListeners(e) # 0 => arrays[GetListeners(e)] # <<>>
    /\ HasListeners(e) <=> GetListeners(e) # 0

\* C38: after any sequence of register, closure and clearAll calls no key
\* maps to an empty array, hasListeners(e) is true exactly when
\* getListeners(e) is defined, and getListeners(e) is undefined exactly when
\* no subscriber is registered on e.
C38_UndefinedExactlyWhenNobody ==
  /\ NoEmptyList
  /\ \A e \in AllEndpoints :
       GetListeners(e) = 0 <=>
         ~\E s \in AllSubs : Registered(s) /\ subEndpoint[s] = e

====
